---- MODULE Spec2Model ----
(***************************************************************************)
(* Connection reliability layer of the Azure SQL MCP server:               *)
(*   - SqlConnectionFactory: the connection pool (an asyncio.Queue) and    *)
(*     the get_pooled_connection scope,                                    *)
(*   - BaseTool: the primary connection shared through the lifespan        *)
(*     context,                                                            *)
(*   - ConnectionHealthMonitor: the per-identity health record and the     *)
(*     monitoring tasks,                                                   *)
(*   - ConnectionRecoveryManager: recover_connection and its statistics,   *)
(*   - AgenticSQLClient: the circuit breaker of connect(), execute_query   *)
(*     and the database-info, schema and validation caches,                *)
(*   - create_connection under the retry decorators of the factory and     *)
(*     of the server core.                                                 *)
(* Every action is one run of a coroutine between two suspension points    *)
(* (an await that really suspends) of the asyncio event loop.              *)
(***************************************************************************)
EXTENDS Integers, Sequences, FiniteSets, TLC

\* ---------------------------------------------------------------- bounds
MaxPoolSize == 2        \* CONNECTION_POOL_SIZE ranges over 0..MaxPoolSize
NumCallers == 3         \* tasks that open get_pooled_connection scopes
NumInits == 2           \* tasks that call initialize_pool
MaxConns == 3           \* connections the database accepts in one run

NumTools == 2           \* tool invocations in flight at once
NumWorkers == 2         \* threads of the event loop's default executor
MaxNow == 95            \* the clock stops here
ClockStep == 16         \* seconds between two readings of time.time()
NumIds == 2             \* monitored identities
MaxTasks == 3           \* monitoring tasks created in one run
NumStoppers == 2        \* callers of stop_monitoring
MaxRetryAttempts == 3   \* max_retry_attempts ranges over 0..MaxRetryAttempts
MaxBaseDelay == 2       \* base_delay ranges over 1..MaxBaseDelay seconds
MaxConnects == 7        \* connect() calls of the client in one run
NumConnectors == 2      \* tasks that call connect() of one client
MaxQueries == 1         \* execute_query calls of the client in one run
MaxTicks == 4           \* the times datetime.now() moves on in one run
NumTables == 1          \* tables whose schema is asked for
NumQueryHashes == 1     \* distinct queries that are validated
MaxMaxErrors == 5       \* max_errors ranges over 1..MaxMaxErrors
ErrorsAbove == 1        \* failed probes are counted up to max_errors + ErrorsAbove

\* ------------------------------------------------------ program constants
connection_check_interval == 30     \* BaseTool._connection_check_interval
default_pool_size == 0              \* CONNECTION_POOL_SIZE when unset
default_max_errors == 5             \* max_errors of ConnectionHealthMonitor
default_max_retry_attempts == 3     \* ConnectionRecoveryManager.__init__
default_base_delay == 2             \* ConnectionRecoveryManager.__init__
circuit_breaker_threshold == 5      \* AgenticSQLClient._circuit_breaker_threshold
circuit_breaker_timeout == 60       \* AgenticSQLClient._circuit_breaker_timeout
max_retries == 3                    \* AgenticSQLClient.max_retries
stop_after_attempt == 3             \* the stop of both @retry decorators
ConnectErrors == {"pyodbc.Error", "OSError"}   \* what connect() can raise
default_cache_ttl == 300            \* AgenticSQLClient.cache_ttl, DatabaseInfo.cache_ttl
SecondsPerDay == 86400              \* datetime.timedelta keeps days apart
demo_cache_ttl == 600               \* the cache_ttl of demo_agentic_capabilities
CacheTtls == {default_cache_ttl, demo_cache_ttl}
StartOfRun == 43200                 \* the run starts at noon
ClockSteps == {1, 299, 43200}       \* seconds between two readings of datetime.now()

Callers == 1..NumCallers
Tools == 1..NumTools
Workers == 1..NumWorkers
Ids == 1..NumIds
TaskIds == 1..MaxTasks
Connectors == 1..NumConnectors
TableNames == 1..NumTables
QueryHashes == 1..NumQueryHashes
Stoppers == 1..NumStoppers
Inits == 1..NumInits
ConnIds == 1..MaxConns
None == 0
ShutdownCaller == 0      \* shutdown() among the callers that await a task
Primary == MaxConns + 1  \* the primary connection made by _lifespan

VARIABLES
    pool_size,          \* self._pool_size
    connection_pool,    \* self._connection_pool: None or the current Queue
    pool_initialized,   \* self._pool_initialized
    queues,             \* the items of every Queue object ever created
    conn_state,         \* per connection: "none", "open", "closed"
    ipc, iidx, iconn, iq,               \* initialize_pool tasks
    pc, held, waitq, yielded, validated, \* get_pooled_connection scopes
    lifespan,           \* _lifespan: "starting", "serving", "finished"
    ctx_conn,           \* lifespan_context["conn"]: None or Primary
    primary_state,      \* the primary connection: "none", "open", "closed"
    now,                \* time.time(), seconds
    last_connection_check,  \* BaseTool._last_connection_check per tool
    tpc, tworker,       \* tool invocations and the worker each one awaits
    worker,             \* per executor thread: the connection it works on
    max_errors,         \* ConnectionHealthMonitor.max_errors
    connection_health,  \* per identity: the ConnectionHealth record or NoHealth
    monitoring_tasks,   \* self._monitoring_tasks: the entries [id, task] in
                        \* insertion order
    shutdown_event,     \* self._shutdown_event.is_set()
    mpc,                \* per task: where its _monitor_connection coroutine is
    connection_id,      \* per task: the identity it was started for
    must_cancel,        \* per task: Task.cancel() was called, CancelledError
                        \* is thrown at the task's next run
    health_ref,         \* per task: the record object its running check
                        \* fetched, named by the task started with it
    test_conn,          \* per task: the test connection of the running check
    leaked,             \* a test connection was dropped without being closed
    waiters,            \* per task: the callers awaiting it, in the order of
                        \* their done callbacks
    stop_pc,            \* per caller of stop_monitoring: "idle", "awaiting"
                        \* (line 86) or "raised"
    stop_id,            \* per caller of stop_monitoring: its identity argument
    shutdown_pc,        \* shutdown(): "idle", "stopping", "done", "raised"
    shutdown_todo,      \* identities shutdown() has still to stop, in order
    max_retry_attempts, \* ConnectionRecoveryManager.max_retry_attempts
    base_delay,         \* ConnectionRecoveryManager.base_delay, seconds
    recovery_stats,     \* self._recovery_stats[connection_id] or NoStats
    rpc,                \* where the recover_connection call is
    attempt,            \* its loop variable
    waits,              \* the delays it has slept, in order
    creations,          \* the create_connection calls it has made
    rresult,            \* what it returned: "none", "true", "false"
    circuit_breaker_failures,       \* AgenticSQLClient._circuit_breaker_failures
    circuit_breaker_last_failure,   \* ._circuit_breaker_last_failure
    cpc,                \* per task: where its connect() call of the client is
    cattempt,           \* per task: its loop variable
    connect_result,     \* what the last connect() to return returned: "none", "true",
                        \* "false", or "blocked" (False at line 289)
    connects,           \* the connect() calls made
    client_owner,       \* AgenticSQLClient.client: 0 for None, else the task
                        \* whose latest attempt made the Client object
    client_connected,   \* the __aenter__ of that Client has completed
    contacted_open,     \* the server was contacted with the breaker open
    qpc,                \* where the execute_query call of the client is
    queries,            \* the execute_query calls made
    wall,               \* datetime.now(), in seconds
    ticks,              \* the times datetime.now() has moved on
    cache_ttl,          \* AgenticSQLClient.cache_ttl
    db_info_cache,      \* ._db_info_cache: <<>> for None, else <<entry>>
    gpc,                \* where the get_database_info call is
    db_result,          \* its local db_result: "none", "ok", "exception"
    tables_result,      \* its local tables_result, "malformed" when the
                        \* answer cannot be read
    schema_cache,       \* per table: ._schema_cache holds its schema
    schema_written,     \* per table: when that schema was stored
    spc,                \* per table: where the get_table_schema call is
    validation_cache,   \* per query hash: ._validation_cache holds a verdict
    validation_written, \* per query hash: when that verdict was stored
    last_read,          \* what the last cache read returned
    create_pc,          \* where the request to create a connection is
    outer_attempt,      \* attempt of _create_connection_with_retry, 0 when
                        \* create_connection is called directly
    inner_attempt,      \* attempt of create_connection
    connect_calls,      \* the times the connect() closure has run
    create_errors,      \* what each failed connect() raised, in order
    create_raised,      \* what the request raised to its caller, or "none"
    startup             \* _lifespan: "none", "serving", "failed" or
                        \* "serving_without_connection"

poolVars == <<pool_size, connection_pool, pool_initialized, queues, conn_state,
              ipc, iidx, iconn, iq, pc, held, waitq, yielded, validated>>

toolVars == <<lifespan, ctx_conn, primary_state, now, last_connection_check,
              tpc, tworker, worker>>

monitorVars == <<max_errors, connection_health, monitoring_tasks, shutdown_event,
                 mpc, connection_id, must_cancel, health_ref, test_conn, leaked,
                 waiters, stop_pc, stop_id, shutdown_pc, shutdown_todo>>

recoveryVars == <<max_retry_attempts, base_delay, recovery_stats, rpc, attempt,
                  waits, creations, rresult>>

breakerState == <<circuit_breaker_failures, circuit_breaker_last_failure, cpc,
                  cattempt, connect_result, connects, client_owner,
                  client_connected, contacted_open, qpc, queries>>

cacheVars == <<wall, ticks, cache_ttl, db_info_cache, gpc, db_result,
               tables_result, schema_cache, schema_written, spc,
               validation_cache, validation_written, last_read>>

createVars == <<create_pc, outer_attempt, inner_attempt, connect_calls,
                create_errors, create_raised, startup>>

breakerVars == <<breakerState, cacheVars, createVars>>

vars == <<poolVars, toolVars, monitorVars, recoveryVars, breakerVars>>

\* ------------------------------------------------------------ helpers
Range(s) == {s[i] : i \in 1..Len(s)}

\* the next connection object the driver hands out (None when exhausted)
NewConn ==
    IF \E c \in ConnIds : conn_state[c] = "none"
    THEN CHOOSE c \in ConnIds :
            conn_state[c] = "none" /\ \A d \in ConnIds : conn_state[d] = "none" => c <= d
    ELSE None

\* a Queue.empty() that is off by one: the last idle connection is not seen
QueueEmpty_OffByOne(q) == Len(queues[q]) <= 1

\* asyncio.Queue.empty(): Queue.get() suspends while it holds
QueueEmpty(q) == queues[q] = <<>>

\* asyncio.Queue(maxsize=self._pool_size).full()
QueueFull(q) == Len(queues[q]) >= pool_size

\* a probe that never raises
ProbeOk_Always(c, alive) == TRUE

\* cursor.execute("SELECT 1") (lines 64-66) on a connection: it raises on a
\* closed handle, and on an open one whose session the server has dropped
\* (alive is the server's answer)
ProbeOk(c, alive) == conn_state[c] = "open" /\ alive

\* conn.close(): the handle is closed whatever its state was
Closed(c) == [conn_state EXCEPT ![c] = "closed"]

\* no entry in self._recovery_stats
NoStats == [attempts_used |-> 0, success |-> "none"]

\* no entry in self.connection_health
NoHealth == [state |-> "absent", error_count |-> 0, last_error |-> "None"]

\* the objects as their constructors leave them, but for the two
\* configured values pool_size and max_errors
InitObjects ==
    /\ connection_pool = None
    /\ pool_initialized = FALSE
    /\ queues = [q \in Inits |-> <<>>]
    /\ conn_state = [c \in ConnIds |-> "none"]
    /\ ipc = [k \in Inits |-> "idle"]
    /\ iidx = [k \in Inits |-> 0]
    /\ iconn = [k \in Inits |-> None]
    /\ iq = [k \in Inits |-> None]
    /\ pc = [t \in Callers |-> "idle"]
    /\ held = [t \in Callers |-> None]
    /\ waitq = [t \in Callers |-> None]
    /\ yielded = [t \in Callers |-> "none"]
    /\ validated = [t \in Callers |-> FALSE]
    /\ lifespan = "starting"
    /\ ctx_conn = None
    /\ primary_state = "none"
    /\ now = connection_check_interval + 1   \* time.time() is far above 30
    /\ last_connection_check = [k \in Tools |-> 0]
    /\ tpc = [k \in Tools |-> "idle"]
    /\ tworker = [k \in Tools |-> None]
    /\ worker = [w \in Workers |-> None]
    /\ connection_health = [i \in Ids |-> NoHealth]
    /\ monitoring_tasks = <<>>
    /\ shutdown_event = FALSE
    /\ mpc = [k \in TaskIds |-> "none"]
    /\ connection_id = [k \in TaskIds |-> None]
    /\ must_cancel = [k \in TaskIds |-> FALSE]
    /\ health_ref = [k \in TaskIds |-> None]
    /\ test_conn = [k \in TaskIds |-> "none"]
    /\ leaked = FALSE
    /\ waiters = [k \in TaskIds |-> <<>>]
    /\ stop_pc = [s \in Stoppers |-> "idle"]
    /\ stop_id = [s \in Stoppers |-> None]
    /\ shutdown_pc = "idle"
    /\ shutdown_todo = <<>>
    /\ recovery_stats = NoStats
    /\ rpc = "idle"
    /\ attempt = 0
    /\ waits = <<>>
    /\ creations = 0
    /\ rresult = "none"
    /\ circuit_breaker_failures = 0
    /\ circuit_breaker_last_failure = 0
    /\ cpc = [t \in Connectors |-> "idle"]
    /\ cattempt = [t \in Connectors |-> 0]
    /\ connect_result = "none"
    /\ connects = 0
    /\ contacted_open = FALSE
    /\ qpc = "idle"
    /\ queries = 0
    /\ wall = StartOfRun
    /\ ticks = 0
    /\ db_info_cache = <<>>
    /\ gpc = "idle"
    /\ db_result = "none"
    /\ tables_result = "none"
    /\ schema_cache = [tb \in TableNames |-> FALSE]
    /\ schema_written = [tb \in TableNames |-> 0]
    /\ spc = [tb \in TableNames |-> "idle"]
    /\ validation_cache = [q \in QueryHashes |-> FALSE]
    /\ validation_written = [q \in QueryHashes |-> 0]
    /\ last_read = [op |-> "none", hit |-> FALSE, stale |-> FALSE]
    /\ create_pc = "idle"
    /\ outer_attempt = 0
    /\ inner_attempt = 0
    /\ connect_calls = 0
    /\ create_errors = <<>>
    /\ create_raised = "none"
    /\ startup = "none"

\* the client on the defaults of its constructor
ClientDefaults ==
    /\ cache_ttl = default_cache_ttl
    /\ client_owner = 0
    /\ client_connected = FALSE

\* the recovery manager on the defaults of its constructor
RecoveryDefaults ==
    /\ max_retry_attempts = default_max_retry_attempts
    /\ base_delay = default_base_delay

\* the pool under every configured size
Init ==
    /\ InitObjects
    /\ RecoveryDefaults
    /\ ClientDefaults
    /\ pool_size \in 0..MaxPoolSize
    /\ max_errors = default_max_errors

\* the tools on the server's defaults
InitTools ==
    /\ InitObjects
    /\ RecoveryDefaults
    /\ ClientDefaults
    /\ pool_size = default_pool_size
    /\ max_errors = default_max_errors

\* the monitor under every max_errors
InitHealth ==
    /\ InitObjects
    /\ RecoveryDefaults
    /\ ClientDefaults
    /\ pool_size = default_pool_size
    /\ max_errors \in 1..MaxMaxErrors

\* the strictest monitor: max_errors = 1
InitMonitor ==
    /\ InitObjects
    /\ RecoveryDefaults
    /\ ClientDefaults
    /\ pool_size = default_pool_size
    /\ max_errors = 1

\* the recovery manager under every retry configuration the server accepts
InitRecovery ==
    /\ InitObjects
    /\ ClientDefaults
    /\ pool_size = default_pool_size
    /\ max_errors = default_max_errors
    /\ max_retry_attempts \in 0..MaxRetryAttempts
    /\ base_delay \in 1..MaxBaseDelay

\* the caches of a client made with either cache_ttl the repository uses,
\* before connect(), after a connect() that failed and after one that
\* succeeded
InitCache ==
    /\ InitObjects
    /\ RecoveryDefaults
    /\ pool_size = default_pool_size
    /\ max_errors = default_max_errors
    /\ cache_ttl \in CacheTtls
    /\ client_owner \in {0, 1}
    /\ client_connected \in BOOLEAN
    /\ client_owner = 0 => ~client_connected

callerVars == <<pc, held, waitq, yielded, validated>>
initVars == <<ipc, iidx, iconn, iq>>

\* ------------------------------------------------------ initialize_pool
\* lines 36-40: the guard, the new Queue, and the first await of
\* create_connection (the task suspends there). Task k is the k-th call
\* that passes the guard and the Queue object it makes is queue k; a call
\* that fails the guard returns at once and changes nothing
initialize_pool(k) ==
    /\ ipc[k] = "idle"
    /\ \A j \in Inits : j < k => ipc[j] # "idle"
    /\ pool_size > 0 /\ ~pool_initialized
    /\ connection_pool' = k
    /\ queues' = [queues EXCEPT ![k] = <<>>]
    /\ ipc' = [ipc EXCEPT ![k] = "creating"]
    /\ UNCHANGED <<pool_size, pool_initialized, conn_state, iidx, iconn, iq, callerVars>>
    /\ UNCHANGED <<toolVars, monitorVars, recoveryVars, breakerVars>>

\* the for loop moves on after iteration i (lines 38, 46)
InitAdvance(k) ==
    IF iidx[k] + 1 >= pool_size
    THEN /\ pool_initialized' = TRUE
         /\ ipc' = [ipc EXCEPT ![k] = "done"]
         /\ iidx' = [iidx EXCEPT ![k] = iidx[k] + 1]
    ELSE /\ ipc' = [ipc EXCEPT ![k] = "creating"]
         /\ iidx' = [iidx EXCEPT ![k] = iidx[k] + 1]
         /\ UNCHANGED pool_initialized

\* lines 40-44: create_connection returns or raises, then
\* await self._connection_pool.put(conn) on the pool that is current now
initialize_pool_created(k) ==
    /\ ipc[k] = "creating"
    /\ \/ /\ NewConn # None
          /\ conn_state' = [conn_state EXCEPT ![NewConn] = "open"]
          /\ IF QueueFull(connection_pool)
             THEN /\ ipc' = [ipc EXCEPT ![k] = "putting"]
                  /\ iconn' = [iconn EXCEPT ![k] = NewConn]
                  /\ iq' = [iq EXCEPT ![k] = connection_pool]
                  /\ UNCHANGED <<queues, iidx, pool_initialized>>
             ELSE /\ queues' = [queues EXCEPT ![connection_pool] = Append(@, NewConn)]
                  /\ InitAdvance(k)
                  /\ UNCHANGED <<iconn, iq>>
       \/ /\ InitAdvance(k)          \* except Exception: logged
          /\ UNCHANGED <<conn_state, queues, iconn, iq>>
    /\ UNCHANGED <<pool_size, connection_pool, callerVars>>
    /\ UNCHANGED <<toolVars, monitorVars, recoveryVars, breakerVars>>

\* a put that was blocked on a full queue goes through
initialize_pool_put(k) ==
    /\ ipc[k] = "putting"
    /\ ~QueueFull(iq[k])
    /\ queues' = [queues EXCEPT ![iq[k]] = Append(@, iconn[k])]
    /\ iconn' = [iconn EXCEPT ![k] = None]
    /\ iq' = [iq EXCEPT ![k] = None]
    /\ InitAdvance(k)
    /\ UNCHANGED <<pool_size, connection_pool, conn_state, callerVars>>
    /\ UNCHANGED <<toolVars, monitorVars, recoveryVars, breakerVars>>

\* ------------------------------------------------ get_pooled_connection
\* a get that leaves the item in the queue
Dequeue_Keep(q) == queues[q]

\* Queue.get(): the item handed out leaves the queue
Dequeue(q) == Tail(queues[q])

\* lines 77-86, the finally block: await self._connection_pool.put(conn)
\* on the pool that is current now; put() suspends while that queue is full.
\* cs is the connection table after what the handler did before
Release(t, cs) ==
    /\ conn_state' = cs
    /\ yielded' = [yielded EXCEPT ![t] = "none"]
    /\ validated' = [validated EXCEPT ![t] = FALSE]
    /\ IF QueueFull(connection_pool)
       THEN /\ pc' = [pc EXCEPT ![t] = "waitPut"]
            /\ waitq' = [waitq EXCEPT ![t] = connection_pool]
            /\ UNCHANGED <<queues, held>>
       ELSE /\ queues' = [queues EXCEPT ![connection_pool] = Append(@, held[t])]
            /\ pc' = [pc EXCEPT ![t] = "idle"]
            /\ held' = [held EXCEPT ![t] = None]
            /\ waitq' = [waitq EXCEPT ![t] = None]

\* lines 61-76 once Queue.get() has an item: the probe runs on the event
\* loop without suspending; on success the scope is entered (line 67), on
\* failure the handler closes the connection and awaits create_connection
TakeAndValidate(t, q, alive) ==
    LET c == Head(queues[q]) IN
    /\ queues' = [queues EXCEPT ![q] = Dequeue(q)]
    /\ held' = [held EXCEPT ![t] = c]
    /\ waitq' = [waitq EXCEPT ![t] = None]
    /\ IF ProbeOk(c, alive)
       THEN /\ pc' = [pc EXCEPT ![t] = "leased"]
            /\ yielded' = [yielded EXCEPT ![t] = "first"]
            /\ validated' = [validated EXCEPT ![t] = TRUE]
            /\ UNCHANGED conn_state
       ELSE /\ pc' = [pc EXCEPT ![t] = "replacing"]
            /\ conn_state' = Closed(c)
            /\ UNCHANGED <<yielded, validated>>

\* lines 52-61: the unpooled branch awaits create_connection; the pooled
\* branch takes an idle connection or suspends in Queue.get()
get_pooled_connection(t) ==
    /\ pc[t] = "idle"
    /\ IF connection_pool = None \/ pool_size = 0
       THEN /\ pc' = [pc EXCEPT ![t] = "creating"]
            /\ UNCHANGED <<queues, conn_state, held, waitq, yielded, validated>>
       ELSE IF ~QueueEmpty(connection_pool)
            THEN \E alive \in BOOLEAN : TakeAndValidate(t, connection_pool, alive)
            ELSE /\ pc' = [pc EXCEPT ![t] = "waitGet"]
                 /\ waitq' = [waitq EXCEPT ![t] = connection_pool]
                 /\ UNCHANGED <<queues, conn_state, held, yielded, validated>>
    /\ UNCHANGED <<pool_size, connection_pool, pool_initialized, initVars>>
    /\ UNCHANGED <<toolVars, monitorVars, recoveryVars, breakerVars>>

\* a getter suspended in Queue.get() is woken by an item
get_wakeup(t) ==
    /\ pc[t] = "waitGet"
    /\ ~QueueEmpty(waitq[t])
    /\ \E alive \in BOOLEAN : TakeAndValidate(t, waitq[t], alive)
    /\ UNCHANGED <<pool_size, connection_pool, pool_initialized, initVars>>
    /\ UNCHANGED <<toolVars, monitorVars, recoveryVars, breakerVars>>

\* the task is cancelled while suspended in Queue.get() (line 61 is
\* outside the try: nothing is held, nothing is returned)
get_cancelled(t) ==
    /\ pc[t] = "waitGet"
    /\ pc' = [pc EXCEPT ![t] = "idle"]
    /\ waitq' = [waitq EXCEPT ![t] = None]
    /\ UNCHANGED <<pool_size, connection_pool, pool_initialized, queues, conn_state,
                   initVars, held, yielded, validated>>
    /\ UNCHANGED <<toolVars, monitorVars, recoveryVars, breakerVars>>

\* line 75-76 after a failed probe: the replacement is yielded as it comes
\* from create_connection; if create_connection raises (or the task is
\* cancelled there) the finally block puts conn, still the closed one, back
replace_after_probe(t) ==
    /\ pc[t] = "replacing"
    /\ \/ /\ NewConn # None
          /\ conn_state' = [conn_state EXCEPT ![NewConn] = "open"]
          /\ held' = [held EXCEPT ![t] = NewConn]
          /\ pc' = [pc EXCEPT ![t] = "leased"]
          /\ yielded' = [yielded EXCEPT ![t] = "second"]
          /\ validated' = [validated EXCEPT ![t] = FALSE]
          /\ UNCHANGED <<queues, waitq>>
       \/ Release(t, conn_state)
    /\ UNCHANGED <<pool_size, connection_pool, pool_initialized, initVars>>
    /\ UNCHANGED <<toolVars, monitorVars, recoveryVars, breakerVars>>

\* the caller's block ends normally or by a BaseException that is not an
\* Exception (CancelledError of a cancellation or of wait_for's timeout):
\* pooled scopes run the finally block, unpooled ones await close_connection
scope_exit(t) ==
    /\ pc[t] = "leased"
    /\ IF yielded[t] = "unpooled"
       THEN /\ pc' = [pc EXCEPT ![t] = "closing"]
            /\ yielded' = [yielded EXCEPT ![t] = "none"]
            /\ UNCHANGED <<queues, conn_state, held, waitq, validated>>
       ELSE Release(t, conn_state)
    /\ UNCHANGED <<pool_size, connection_pool, pool_initialized, initVars>>
    /\ UNCHANGED <<toolVars, monitorVars, recoveryVars, breakerVars>>

\* the caller's block raises an Exception. At the first yield (line 67) the
\* except clause of line 68 catches it: conn.close(), await
\* create_connection. At line 76 and on the unpooled path it goes to finally
scope_raise(t) ==
    /\ pc[t] = "leased"
    /\ IF yielded[t] = "first"
       THEN /\ pc' = [pc EXCEPT ![t] = "replacing_raised"]
            /\ conn_state' = Closed(held[t])
            /\ yielded' = [yielded EXCEPT ![t] = "none"]
            /\ validated' = [validated EXCEPT ![t] = FALSE]
            /\ UNCHANGED <<queues, held, waitq>>
       ELSE IF yielded[t] = "unpooled"
       THEN /\ pc' = [pc EXCEPT ![t] = "closing"]
            /\ yielded' = [yielded EXCEPT ![t] = "none"]
            /\ UNCHANGED <<queues, conn_state, held, waitq, validated>>
       ELSE Release(t, conn_state)
    /\ UNCHANGED <<pool_size, connection_pool, pool_initialized, initVars>>
    /\ UNCHANGED <<toolVars, monitorVars, recoveryVars, breakerVars>>

\* lines 75-76 reached from the caller's exception: the generator yields a
\* second time, the context manager raises RuntimeError("generator didn't
\* stop after athrow()") and the generator stays suspended at line 76,
\* holding the replacement, until it is finalized
replace_after_raise(t) ==
    /\ pc[t] = "replacing_raised"
    /\ \/ /\ NewConn # None
          /\ conn_state' = [conn_state EXCEPT ![NewConn] = "open"]
          /\ held' = [held EXCEPT ![t] = NewConn]
          /\ pc' = [pc EXCEPT ![t] = "suspended"]
          /\ UNCHANGED <<queues, waitq, yielded, validated>>
       \/ Release(t, conn_state)
    /\ UNCHANGED <<pool_size, connection_pool, pool_initialized, initVars>>
    /\ UNCHANGED <<toolVars, monitorVars, recoveryVars, breakerVars>>

\* the event loop's asynchronous-generator finalizer runs aclose():
\* GeneratorExit at line 76, then the finally block
generator_finalize(t) ==
    /\ pc[t] = "suspended"
    /\ Release(t, conn_state)
    /\ UNCHANGED <<pool_size, connection_pool, pool_initialized, initVars>>
    /\ UNCHANGED <<toolVars, monitorVars, recoveryVars, breakerVars>>

\* a put suspended on a full queue goes through
put_wakeup(t) ==
    /\ pc[t] = "waitPut"
    /\ ~QueueFull(waitq[t])
    /\ queues' = [queues EXCEPT ![waitq[t]] = Append(@, held[t])]
    /\ pc' = [pc EXCEPT ![t] = "idle"]
    /\ held' = [held EXCEPT ![t] = None]
    /\ waitq' = [waitq EXCEPT ![t] = None]
    /\ UNCHANGED <<pool_size, connection_pool, pool_initialized, conn_state, initVars,
                   yielded, validated>>
    /\ UNCHANGED <<toolVars, monitorVars, recoveryVars, breakerVars>>

\* lines 81-86: the bare except around put() (CancelledError while the put
\* is suspended) closes the connection
ReleaseFailed(c) == Closed(c)

put_cancelled(t) ==
    /\ pc[t] = "waitPut"
    /\ conn_state' = ReleaseFailed(held[t])
    /\ pc' = [pc EXCEPT ![t] = "idle"]
    /\ held' = [held EXCEPT ![t] = None]
    /\ waitq' = [waitq EXCEPT ![t] = None]
    /\ UNCHANGED <<pool_size, connection_pool, pool_initialized, queues, initVars,
                   yielded, validated>>
    /\ UNCHANGED <<toolVars, monitorVars, recoveryVars, breakerVars>>

\* lines 54-56: the unpooled branch resumes from create_connection
unpooled_created(t) ==
    /\ pc[t] = "creating"
    /\ \/ /\ NewConn # None
          /\ conn_state' = [conn_state EXCEPT ![NewConn] = "open"]
          /\ held' = [held EXCEPT ![t] = NewConn]
          /\ pc' = [pc EXCEPT ![t] = "leased"]
          /\ yielded' = [yielded EXCEPT ![t] = "unpooled"]
       \/ /\ pc' = [pc EXCEPT ![t] = "idle"]
          /\ UNCHANGED <<conn_state, held, yielded>>
    /\ UNCHANGED <<pool_size, connection_pool, pool_initialized, queues, initVars,
                   waitq, validated>>
    /\ UNCHANGED <<toolVars, monitorVars, recoveryVars, breakerVars>>

\* close_connection (lines 220-237): conn.close() on a worker thread
close_connection(c) == Closed(c)

\* lines 57-58: the unpooled scope's finally resumes from close_connection
unpooled_closed(t) ==
    /\ pc[t] = "closing"
    /\ conn_state' = close_connection(held[t])
    /\ pc' = [pc EXCEPT ![t] = "idle"]
    /\ held' = [held EXCEPT ![t] = None]
    /\ UNCHANGED <<pool_size, connection_pool, pool_initialized, queues, initVars,
                   waitq, yielded, validated>>
    /\ UNCHANGED <<toolVars, monitorVars, recoveryVars, breakerVars>>

\* --------------------------------------------------------- cleanup_pool
\* what the loop body of lines 244-248 does to a dequeued connection:
\* get_nowait() returns the connection itself, `await conn` raises
\* TypeError, the bare except swallows it and close_connection never runs
CleanupBody(cs, c) == cs

RECURSIVE CleanupAll(_, _)
CleanupAll(cs, s) ==
    IF s = <<>> THEN cs ELSE CleanupAll(CleanupBody(cs, Head(s)), Tail(s))

\* lines 241-249; no await of the loop ever suspends, the call is atomic
cleanup_pool ==
    /\ connection_pool # None
    /\ pool_initialized
    /\ conn_state' = CleanupAll(conn_state, queues[connection_pool])
    /\ queues' = [queues EXCEPT ![connection_pool] = <<>>]
    /\ pool_initialized' = FALSE
    /\ UNCHANGED <<pool_size, connection_pool, initVars, callerVars>>
    /\ UNCHANGED <<toolVars, monitorVars, recoveryVars, breakerVars>>

NextPool ==
    \/ \E k \in Inits : initialize_pool(k)
    \/ \E k \in Inits : initialize_pool_created(k)
    \/ \E k \in Inits : initialize_pool_put(k)
    \/ \E t \in Callers : get_pooled_connection(t)
    \/ \E t \in Callers : get_wakeup(t)
    \/ \E t \in Callers : get_cancelled(t)
    \/ \E t \in Callers : replace_after_probe(t)
    \/ \E t \in Callers : scope_exit(t)
    \/ \E t \in Callers : scope_raise(t)
    \/ \E t \in Callers : replace_after_raise(t)
    \/ \E t \in Callers : generator_finalize(t)
    \/ \E t \in Callers : put_wakeup(t)
    \/ \E t \in Callers : put_cancelled(t)
    \/ \E t \in Callers : unpooled_created(t)
    \/ \E t \in Callers : unpooled_closed(t)
    \/ cleanup_pool

Spec == Init /\ [][NextPool]_vars

\* what the event loop and the callers do sooner or later: a coroutine that
\* can resume is resumed, a driver call on a worker thread returns, a
\* caller's block ends; a task that waits on a queue is not passed over for
\* ever when the queue keeps offering what it waits for. New calls and
\* cancellations are not forced
CallerProgress(t) ==
    \/ replace_after_probe(t)
    \/ scope_exit(t)
    \/ replace_after_raise(t)
    \/ generator_finalize(t)
    \/ unpooled_created(t)
    \/ unpooled_closed(t)

QueueProgress(t) ==
    \/ get_wakeup(t)
    \/ put_wakeup(t)

InitProgress(k) ==
    \/ initialize_pool_created(k)
    \/ initialize_pool_put(k)

FairSpec ==
    /\ Spec
    /\ \A t \in Callers : WF_vars(CallerProgress(t))
    /\ \A t \in Callers : SF_vars(QueueProgress(t))
    /\ \A k \in Inits : WF_vars(InitProgress(k))

\* ===================================================== BaseTool, _lifespan
\* core.py lines 128-131 and 156-177: the primary connection is created and
\* put in the lifespan context, or the context gets conn = None
lifespan_enter ==
    /\ lifespan = "starting"
    /\ lifespan' = "serving"
    /\ \/ /\ primary_state' = "open"
          /\ ctx_conn' = Primary
       \/ /\ UNCHANGED primary_state
          /\ ctx_conn' = None
    /\ UNCHANGED <<now, last_connection_check, tpc, tworker, worker>>
    /\ UNCHANGED <<poolVars, monitorVars, recoveryVars, breakerVars>>

\* core.py lines 178-186: the finally block closes the primary connection
lifespan_exit ==
    /\ lifespan = "serving"
    /\ lifespan' = "finished"
    /\ primary_state' = IF ctx_conn # None THEN "closed" ELSE primary_state
    /\ UNCHANGED <<ctx_conn, now, last_connection_check, tpc, tworker, worker>>
    /\ UNCHANGED <<poolVars, monitorVars, recoveryVars, breakerVars>>

\* BaseTool.get_connection, lines 51-68: the connection of the lifespan
\* context, the same object for every caller (None raises ConnectionError)
get_connection == ctx_conn

\* lines 63-66: the periodic health check stamps the time
CheckStamp(k) ==
    IF now - last_connection_check[k] > connection_check_interval
    THEN [last_connection_check EXCEPT ![k] = now]
    ELSE last_connection_check

\* a tool's execute(): conn = self.get_connection(ctx), then
\* execute_query (lines 104-110) hands query_func, which works on conn, to
\* a free thread of the executor and awaits it under wait_for
execute_query(k, w) ==
    /\ lifespan = "serving"
    /\ tpc[k] = "idle"
    /\ get_connection # None
    /\ worker[w] = None
    /\ last_connection_check' = CheckStamp(k)
    /\ worker' = [worker EXCEPT ![w] = get_connection]
    /\ tworker' = [tworker EXCEPT ![k] = w]
    /\ tpc' = [tpc EXCEPT ![k] = "awaiting"]
    /\ UNCHANGED <<lifespan, ctx_conn, primary_state, now>>
    /\ UNCHANGED <<poolVars, monitorVars, recoveryVars, breakerVars>>

\* query_func returns or raises on its thread: execute_query returns the
\* result or the error dictionary (lines 111, 115-117)
query_returns(k) ==
    /\ tpc[k] = "awaiting"
    /\ worker' = [worker EXCEPT ![tworker[k]] = None]
    /\ tworker' = [tworker EXCEPT ![k] = None]
    /\ tpc' = [tpc EXCEPT ![k] = "idle"]
    /\ UNCHANGED <<lifespan, ctx_conn, primary_state, now, last_connection_check>>
    /\ UNCHANGED <<poolVars, monitorVars, recoveryVars, breakerVars>>

\* lines 112-114: wait_for gives up after 30 s and execute_query returns
\* the time-out dictionary; the thread goes on running query_func
query_timeout(k) ==
    /\ tpc[k] = "awaiting"
    /\ tworker' = [tworker EXCEPT ![k] = None]
    /\ tpc' = [tpc EXCEPT ![k] = "idle"]
    /\ UNCHANGED <<lifespan, ctx_conn, primary_state, now, last_connection_check, worker>>
    /\ UNCHANGED <<poolVars, monitorVars, recoveryVars, breakerVars>>

\* a thread whose caller has timed out finishes query_func
worker_finishes(w) ==
    /\ worker[w] # None
    /\ \A k \in Tools : tworker[k] # w
    /\ worker' = [worker EXCEPT ![w] = None]
    /\ UNCHANGED <<lifespan, ctx_conn, primary_state, now, last_connection_check,
                   tpc, tworker>>
    /\ UNCHANGED <<poolVars, monitorVars, recoveryVars, breakerVars>>

clock_tick ==
    /\ now + ClockStep <= MaxNow
    /\ now' = now + ClockStep
    /\ UNCHANGED <<lifespan, ctx_conn, primary_state, last_connection_check,
                   tpc, tworker, worker>>
    /\ UNCHANGED <<poolVars, monitorVars, recoveryVars, breakerVars>>

NextTools ==
    \/ lifespan_enter
    \/ lifespan_exit
    \/ \E k \in Tools, w \in Workers : execute_query(k, w)
    \/ \E k \in Tools : query_returns(k)
    \/ \E k \in Tools : query_timeout(k)
    \/ \E w \in Workers : worker_finishes(w)
    \/ clock_tick

SpecTools == InitTools /\ [][NextTools]_vars

\* ================================================ ConnectionHealthMonitor
\* lines 66-71: the record start_monitoring creates
NewHealth == [state |-> "UNKNOWN", error_count |-> 0, last_error |-> "None"]

\* the recovery without its floor at 0
ProbeSucceeded_NoFloor(h) ==
    [state |-> "HEALTHY",
     error_count |-> h.error_count - 1,
     last_error |-> "None"]

\* lines 133-137: the record after a probe that passed
ProbeSucceeded(h) ==
    [state |-> "HEALTHY",
     error_count |-> IF h.error_count - 1 > 0 THEN h.error_count - 1 ELSE 0,
     last_error |-> "None"]

\* the thresholds compared with > instead of >=
FailureState_Strict(n) ==
    IF n > max_errors THEN "UNHEALTHY"
    ELSE IF n > max_errors \div 2 THEN "DEGRADED"
    ELSE "HEALTHY"

\* lines 152-157: the state for the error count after a failed probe
FailureState(n) ==
    IF n >= max_errors THEN "UNHEALTHY"
    ELSE IF n >= max_errors \div 2 THEN "DEGRADED"
    ELSE "HEALTHY"

\* the state decided on the error count before the increment
ProbeFailed_StaleCount(h) ==
    [state |-> FailureState(h.error_count),
     error_count |-> h.error_count + 1,
     last_error |-> "error_msg"]

\* lines 146-157: the record after a probe that failed
ProbeFailed(h) ==
    [state |-> FailureState(h.error_count + 1),
     error_count |-> h.error_count + 1,
     last_error |-> "error_msg"]

\* a loop that gives up when its check has failed
LoopTop_StopOnFailure(failed) ==
    IF shutdown_event \/ failed THEN "ended" ELSE "sleeping"

\* line 100: the top of the loop of _monitor_connection, reached after a
\* check (failed or not) and after the pause of line 109; the task is over
\* when the event is set and suspends in asyncio.sleep otherwise
LoopTop(failed) ==
    IF shutdown_event THEN "ended" ELSE "sleeping"

\* connection_id in self._monitoring_tasks
Monitored(mt, i) == \E n \in 1..Len(mt) : mt[n].id = i

\* self._monitoring_tasks[connection_id]
TaskOf(mt, i) == mt[CHOOSE n \in 1..Len(mt) : mt[n].id = i].task

\* del self._monitoring_tasks[connection_id]
DelTask(mt, i) == SelectSeq(mt, LAMBDA e : e.id # i)

\* asyncio.Task.done(): the coroutine has returned or was cancelled
TaskDone(k) == mpc[k] \in {"ended", "cancelled"}

\* the Task object asyncio.create_task makes (None when the run has used
\* its MaxTasks tasks)
NewTask ==
    IF \E k \in TaskIds : mpc[k] = "none"
    THEN CHOOSE k \in TaskIds :
            mpc[k] = "none" /\ \A j \in TaskIds : mpc[j] = "none" => k <= j
    ELSE None

\* lines 59-79: nothing for an identity that has a task; otherwise the new
\* record and the new task, which has not run yet. The identities are
\* numbered in the order of their first use
start_monitoring(i) ==
    /\ \A j \in Ids : j < i => \E k \in TaskIds : connection_id[k] = j
    /\ IF Monitored(monitoring_tasks, i)
       THEN UNCHANGED <<connection_health, monitoring_tasks, mpc, connection_id>>
       ELSE /\ NewTask # None
            /\ connection_health' = [connection_health EXCEPT ![i] = NewHealth]
            /\ monitoring_tasks' =
                   Append(monitoring_tasks, [id |-> i, task |-> NewTask])
            /\ mpc' = [mpc EXCEPT ![NewTask] = "created"]
            /\ connection_id' = [connection_id EXCEPT ![NewTask] = i]
    /\ UNCHANGED <<max_errors, shutdown_event, must_cancel, health_ref, test_conn,
                   leaked, waiters, stop_pc, stop_id, shutdown_pc, shutdown_todo>>
    /\ UNCHANGED <<poolVars, toolVars, recoveryVars, breakerVars>>

\* lines 98-102: the first run of the task, up to asyncio.sleep
monitor_starts(k) ==
    /\ mpc[k] = "created"
    /\ ~must_cancel[k]
    /\ mpc' = [mpc EXCEPT ![k] = LoopTop(FALSE)]
    /\ UNCHANGED <<max_errors, connection_health, monitoring_tasks, shutdown_event,
                   connection_id, must_cancel, health_ref, test_conn, leaked,
                   waiters, stop_pc, stop_id, shutdown_pc, shutdown_todo>>
    /\ UNCHANGED <<poolVars, toolVars, recoveryVars, breakerVars>>

\* lines 102-118: the sleep is over and _check_connection_health starts. It
\* fetches the record object of its identity (line 114) and suspends in
\* create_connection; when the identity has no record line 114 raises
\* KeyError, which line 107 catches, and the task suspends in the pause of
\* line 109. The record object is named by the task that was started with it
monitor_wakes(k) ==
    /\ mpc[k] = "sleeping"
    /\ ~must_cancel[k]
    /\ IF connection_health[connection_id[k]] # NoHealth
       THEN /\ mpc' = [mpc EXCEPT ![k] = "creating"]
            /\ health_ref' = [health_ref EXCEPT
                   ![k] = TaskOf(monitoring_tasks, connection_id[k])]
       ELSE /\ mpc' = [mpc EXCEPT ![k] = "pausing"]
            /\ UNCHANGED health_ref
    /\ UNCHANGED <<max_errors, connection_health, monitoring_tasks, shutdown_event,
                   connection_id, must_cancel, test_conn, leaked, waiters,
                   stop_pc, stop_id, shutdown_pc, shutdown_todo>>
    /\ UNCHANGED <<poolVars, toolVars, recoveryVars, breakerVars>>

\* line 109: the pause after the exception is over
monitor_paused(k) ==
    /\ mpc[k] = "pausing"
    /\ ~must_cancel[k]
    /\ mpc' = [mpc EXCEPT ![k] = LoopTop(TRUE)]
    /\ UNCHANGED <<max_errors, connection_health, monitoring_tasks, shutdown_event,
                   connection_id, must_cancel, health_ref, test_conn, leaked,
                   waiters, stop_pc, stop_id, shutdown_pc, shutdown_todo>>
    /\ UNCHANGED <<poolVars, toolVars, recoveryVars, breakerVars>>

\* the record object task k fetched is still the one in the dict
RefCurrent(k) ==
    /\ Monitored(monitoring_tasks, connection_id[k])
    /\ TaskOf(monitoring_tasks, connection_id[k]) = health_ref[k]

\* the writes of lines 133-137 and 146-157 go to the object fetched at line
\* 114; they show in self.connection_health when that object is still there
WriteHealth(k, h) ==
    IF RefCurrent(k)
    THEN [connection_health EXCEPT ![connection_id[k]] = h]
    ELSE connection_health

\* error_count of the record object task k holds (a record that has left
\* the dict is not followed any further)
RefErrorCount(k) ==
    IF RefCurrent(k) THEN connection_health[connection_id[k]].error_count ELSE 0

\* lines 118-127 and 141-160: create_connection returns and the probe runs
\* (then the task suspends in close_connection), or create_connection
\* raises, or the probe raises on the connection made; the except clause
\* records the failure and closes nothing
check_created(k) ==
    /\ mpc[k] = "creating"
    /\ ~must_cancel[k]
    /\ \/ /\ mpc' = [mpc EXCEPT ![k] = "closing"]
          /\ test_conn' = [test_conn EXCEPT ![k] = "open"]
          /\ UNCHANGED <<connection_health, leaked, health_ref>>
       \/ /\ RefErrorCount(k) < max_errors + ErrorsAbove
          /\ connection_health' =
                 WriteHealth(k, ProbeFailed(connection_health[connection_id[k]]))
          /\ mpc' = [mpc EXCEPT ![k] = LoopTop(TRUE)]
          /\ health_ref' = [health_ref EXCEPT ![k] = None]
          /\ UNCHANGED <<test_conn, leaked>>
       \/ /\ RefErrorCount(k) < max_errors + ErrorsAbove
          /\ connection_health' =
                 WriteHealth(k, ProbeFailed(connection_health[connection_id[k]]))
          /\ mpc' = [mpc EXCEPT ![k] = LoopTop(TRUE)]
          /\ health_ref' = [health_ref EXCEPT ![k] = None]
          /\ leaked' = TRUE
          /\ UNCHANGED test_conn
    /\ UNCHANGED <<max_errors, monitoring_tasks, shutdown_event, connection_id,
                   must_cancel, waiters, stop_pc, stop_id, shutdown_pc,
                   shutdown_todo>>
    /\ UNCHANGED <<poolVars, toolVars, recoveryVars, breakerVars>>

\* lines 127-139: close_connection returns, the success is recorded
check_closed(k) ==
    /\ mpc[k] = "closing"
    /\ ~must_cancel[k]
    /\ test_conn' = [test_conn EXCEPT ![k] = "none"]
    /\ connection_health' =
           WriteHealth(k, ProbeSucceeded(connection_health[connection_id[k]]))
    /\ mpc' = [mpc EXCEPT ![k] = LoopTop(FALSE)]
    /\ health_ref' = [health_ref EXCEPT ![k] = None]
    /\ UNCHANGED <<max_errors, monitoring_tasks, shutdown_event, connection_id,
                   must_cancel, leaked, waiters, stop_pc, stop_id, shutdown_pc,
                   shutdown_todo>>
    /\ UNCHANGED <<poolVars, toolVars, recoveryVars, breakerVars>>

\* lines 104-106: the next run of a task that Task.cancel() has marked
\* throws CancelledError at its await (or before its first line), and the
\* task is over. In create_connection the worker thread goes on and the
\* connection it makes, if any, is dropped with the future's result; in
\* close_connection the thread still closes the connection
monitor_cancelled(k) ==
    /\ must_cancel[k]
    /\ mpc[k] \in {"created", "sleeping", "creating", "closing", "pausing"}
    /\ mpc' = [mpc EXCEPT ![k] = "cancelled"]
    /\ must_cancel' = [must_cancel EXCEPT ![k] = FALSE]
    /\ test_conn' = [test_conn EXCEPT ![k] = "none"]
    /\ health_ref' = [health_ref EXCEPT ![k] = None]
    /\ IF mpc[k] = "creating"
       THEN \E made \in BOOLEAN : leaked' = (leaked \/ made)
       ELSE UNCHANGED leaked
    /\ UNCHANGED <<max_errors, connection_health, monitoring_tasks, shutdown_event,
                   connection_id, waiters, stop_pc, stop_id, shutdown_pc,
                   shutdown_todo>>
    /\ UNCHANGED <<poolVars, toolVars, recoveryVars, breakerVars>>

\* lines 89-92: the task and the record of the identity are deleted
Forget(ch, i) == [ch EXCEPT ![i] = NoHealth]

\* lines 81-94 called by s for a monitored identity: when the task is over
\* already, cancel() does nothing, the await returns at once and the call
\* deletes task and record; otherwise the task is marked and the call
\* suspends in line 86. (For an identity that has no task the call finds no
\* record either and changes nothing.) Of the callers that are free the
\* lowest makes the call
stop_monitoring(s, i) ==
    /\ stop_pc[s] = "idle"
    /\ \A r \in Stoppers : r < s => stop_pc[r] # "idle"
    /\ Monitored(monitoring_tasks, i)
    /\ IF TaskDone(TaskOf(monitoring_tasks, i))
       THEN /\ monitoring_tasks' = DelTask(monitoring_tasks, i)
            /\ connection_health' = Forget(connection_health, i)
            /\ UNCHANGED <<must_cancel, waiters, stop_pc, stop_id>>
       ELSE /\ must_cancel' = [must_cancel EXCEPT
                   ![TaskOf(monitoring_tasks, i)] = TRUE]
            /\ waiters' = [waiters EXCEPT
                   ![TaskOf(monitoring_tasks, i)] = Append(@, s)]
            /\ stop_pc' = [stop_pc EXCEPT ![s] = "awaiting"]
            /\ stop_id' = [stop_id EXCEPT ![s] = i]
            /\ UNCHANGED <<monitoring_tasks, connection_health>>
    /\ UNCHANGED <<max_errors, shutdown_event, mpc, connection_id, health_ref,
                   test_conn, leaked, shutdown_pc, shutdown_todo>>
    /\ UNCHANGED <<poolVars, toolVars, recoveryVars, breakerVars>>

\* the task k that caller c awaits is over and c is the first of its done
\* callbacks still to run
Woken(c, k) ==
    /\ TaskDone(k)
    /\ waiters[k] # <<>>
    /\ Head(waiters[k]) = c

\* lines 86-94: the await of s returns; line 89 deletes the entry of the
\* identity, whichever task it holds now, and raises KeyError when another
\* call has deleted it
stop_monitoring_done(s) ==
    /\ stop_pc[s] = "awaiting"
    /\ \E k \in TaskIds :
          /\ Woken(s, k)
          /\ waiters' = [waiters EXCEPT ![k] = Tail(@)]
    /\ IF Monitored(monitoring_tasks, stop_id[s])
       THEN /\ monitoring_tasks' = DelTask(monitoring_tasks, stop_id[s])
            /\ connection_health' = Forget(connection_health, stop_id[s])
            /\ stop_pc' = [stop_pc EXCEPT ![s] = "idle"]
       ELSE /\ stop_pc' = [stop_pc EXCEPT ![s] = "raised"]
            /\ UNCHANGED <<monitoring_tasks, connection_health>>
    /\ stop_id' = [stop_id EXCEPT ![s] = None]
    /\ UNCHANGED <<max_errors, shutdown_event, mpc, connection_id, must_cancel,
                   health_ref, test_conn, leaked, shutdown_pc, shutdown_todo>>
    /\ UNCHANGED <<poolVars, toolVars, recoveryVars, breakerVars>>

\* lines 193-194: the loop of shutdown over the identities of todo, run
\* until a stop_monitoring call suspends (todo then starts with the
\* identity whose task is awaited) or the list is done (todo is empty)
RECURSIVE ShutdownLoop(_, _, _)
ShutdownLoop(todo, mt, ch) ==
    IF todo = <<>> THEN [todo |-> todo, mt |-> mt, ch |-> ch]
    ELSE IF ~Monitored(mt, Head(todo))
         THEN ShutdownLoop(Tail(todo), mt, Forget(ch, Head(todo)))
    ELSE IF TaskDone(TaskOf(mt, Head(todo)))
         THEN ShutdownLoop(Tail(todo), DelTask(mt, Head(todo)),
                           Forget(ch, Head(todo)))
    ELSE [todo |-> todo, mt |-> mt, ch |-> ch]

\* the state after ShutdownLoop: suspended in the stop_monitoring call of
\* the first identity left (its task marked, shutdown among its waiters) or
\* at the end of shutdown
ShutdownRuns(r) ==
    /\ shutdown_todo' = r.todo
    /\ monitoring_tasks' = r.mt
    /\ connection_health' = r.ch
    /\ IF r.todo = <<>>
       THEN /\ shutdown_pc' = "done"
            /\ UNCHANGED must_cancel
       ELSE /\ shutdown_pc' = "stopping"
            /\ must_cancel' = [must_cancel EXCEPT
                   ![TaskOf(r.mt, Head(r.todo))] = TRUE]

\* the waiters after ShutdownLoop, w being the waiters before it
ShutdownWaits(r, w) ==
    IF r.todo = <<>> THEN w
    ELSE [w EXCEPT ![TaskOf(r.mt, Head(r.todo))] = Append(@, ShutdownCaller)]

\* lines 187-196: shutdown sets the event, snapshots the keys in insertion
\* order and stops one identity after the other
shutdown ==
    /\ shutdown_pc = "idle"
    /\ shutdown_event' = TRUE
    /\ ShutdownRuns(ShutdownLoop([n \in 1..Len(monitoring_tasks) |->
                                     monitoring_tasks[n].id],
                                 monitoring_tasks, connection_health))
    /\ waiters' = ShutdownWaits(ShutdownLoop([n \in 1..Len(monitoring_tasks) |->
                                                 monitoring_tasks[n].id],
                                             monitoring_tasks, connection_health),
                                waiters)
    /\ UNCHANGED <<max_errors, mpc, connection_id, health_ref, test_conn, leaked,
                   stop_pc, stop_id>>
    /\ UNCHANGED <<poolVars, toolVars, recoveryVars, breakerVars>>

\* lines 86-94 and 193-196: the await of the stop_monitoring call made by
\* shutdown returns; the call deletes task and record (or raises KeyError
\* out of shutdown) and the loop of shutdown goes on
shutdown_stop ==
    /\ shutdown_pc = "stopping"
    /\ \E k \in TaskIds :
          /\ Woken(ShutdownCaller, k)
          /\ IF Monitored(monitoring_tasks, Head(shutdown_todo))
             THEN /\ ShutdownRuns(ShutdownLoop(
                        Tail(shutdown_todo),
                        DelTask(monitoring_tasks, Head(shutdown_todo)),
                        Forget(connection_health, Head(shutdown_todo))))
                  /\ waiters' = ShutdownWaits(ShutdownLoop(
                        Tail(shutdown_todo),
                        DelTask(monitoring_tasks, Head(shutdown_todo)),
                        Forget(connection_health, Head(shutdown_todo))),
                        [waiters EXCEPT ![k] = Tail(@)])
             ELSE /\ shutdown_pc' = "raised"
                  /\ waiters' = [waiters EXCEPT ![k] = Tail(@)]
                  /\ UNCHANGED <<shutdown_todo, monitoring_tasks,
                                 connection_health, must_cancel>>
    /\ UNCHANGED <<max_errors, shutdown_event, mpc, connection_id, health_ref,
                   test_conn, leaked, stop_pc, stop_id>>
    /\ UNCHANGED <<poolVars, toolVars, recoveryVars, breakerVars>>

NextMonitor ==
    \/ \E i \in Ids : start_monitoring(i)
    \/ \E k \in TaskIds : monitor_starts(k)
    \/ \E k \in TaskIds : monitor_wakes(k)
    \/ \E k \in TaskIds : monitor_paused(k)
    \/ \E k \in TaskIds : check_created(k)
    \/ \E k \in TaskIds : check_closed(k)
    \/ \E k \in TaskIds : monitor_cancelled(k)
    \/ \E s \in Stoppers : \E i \in Ids : stop_monitoring(s, i)
    \/ \E s \in Stoppers : stop_monitoring_done(s)
    \/ shutdown
    \/ shutdown_stop

\* the monitor with its callers: start, stop and shutdown in any order
SpecMonitor == InitMonitor /\ [][NextMonitor]_vars

\* the monitoring loops left to run: nobody stops them
NextHealth ==
    \/ \E i \in Ids : start_monitoring(i)
    \/ \E k \in TaskIds : monitor_starts(k)
    \/ \E k \in TaskIds : monitor_wakes(k)
    \/ \E k \in TaskIds : check_created(k)
    \/ \E k \in TaskIds : check_closed(k)

\* the health records under every max_errors
SpecHealth == InitHealth /\ [][NextHealth]_vars

\* a delay that doubles from base_delay on, one step late
Delay_FromBase(n) == base_delay * 2 ^ (n - 2)

\* ============================================== ConnectionRecoveryManager
\* line 228: the delay of an attempt
Delay(n) == base_delay * 2 ^ (n - 1)

\* lines 226-236 for attempt n: nothing is slept before attempt 1, later
\* attempts suspend in asyncio.sleep(delay) first; attempt 1 goes straight
\* to create_connection and suspends there
BeginAttempt(n) ==
    /\ attempt' = n
    /\ IF n > 1
       THEN /\ rpc' = "sleeping"
            /\ waits' = Append(waits, Delay(n))
            /\ UNCHANGED creations
       ELSE /\ rpc' = "creating"
            /\ creations' = creations + 1
            /\ UNCHANGED waits

\* lines 259-274: the except clause of an attempt. The last attempt records
\* the failure and returns False; any other goes to the next attempt
AttemptFailed ==
    IF attempt = max_retry_attempts
    THEN /\ recovery_stats' = [attempts_used |-> attempt, success |-> "false"]
         /\ rresult' = "false"
         /\ rpc' = "returned"
         /\ UNCHANGED <<attempt, waits, creations>>
    ELSE /\ BeginAttempt(attempt + 1)
         /\ UNCHANGED <<recovery_stats, rresult>>

\* lines 217-236 and 276: the call starts; with max_retry_attempts = 0 the
\* loop has no iteration and line 276 returns False
recover_connection ==
    /\ rpc \in {"idle", "returned"}
    /\ IF max_retry_attempts = 0
       THEN /\ rresult' = "false"
            /\ rpc' = "returned"
            /\ attempt' = 0
            /\ waits' = <<>>
            /\ creations' = 0
       ELSE /\ rresult' = "none"
            /\ rpc' = "creating"
            /\ attempt' = 1
            /\ waits' = <<>>
            /\ creations' = 1
    /\ UNCHANGED <<max_retry_attempts, base_delay, recovery_stats>>
    /\ UNCHANGED <<poolVars, toolVars, monitorVars, breakerVars>>

\* lines 233-236: the sleep is over, create_connection is called
recovery_slept ==
    /\ rpc = "sleeping"
    /\ rpc' = "creating"
    /\ creations' = creations + 1
    /\ UNCHANGED <<max_retry_attempts, base_delay, recovery_stats, attempt, waits,
                   rresult>>
    /\ UNCHANGED <<poolVars, toolVars, monitorVars, breakerVars>>

\* lines 236-245 and 259-274: create_connection returns and the probe runs
\* (then the call suspends in close_connection), or create_connection
\* raises, or the probe raises on the connection made, which the except
\* clause does not close
recovery_created ==
    /\ rpc = "creating"
    /\ \/ /\ rpc' = "closing"
          /\ UNCHANGED <<recovery_stats, attempt, waits, creations, rresult, leaked>>
       \/ /\ AttemptFailed
          /\ UNCHANGED leaked
       \/ /\ AttemptFailed
          /\ leaked' = TRUE
    /\ UNCHANGED <<max_retry_attempts, base_delay>>
    /\ UNCHANGED <<max_errors, connection_health, monitoring_tasks, shutdown_event,
                   mpc, connection_id, must_cancel, health_ref, test_conn,
                   waiters, stop_pc, stop_id, shutdown_pc, shutdown_todo>>
    /\ UNCHANGED <<poolVars, toolVars, breakerVars>>

\* lines 245-257: close_connection returns; the success is recorded and the
\* call returns True
recovery_closed ==
    /\ rpc = "closing"
    /\ recovery_stats' = [attempts_used |-> attempt, success |-> "true"]
    /\ rresult' = "true"
    /\ rpc' = "returned"
    /\ UNCHANGED <<max_retry_attempts, base_delay, attempt, waits, creations>>
    /\ UNCHANGED <<poolVars, toolVars, monitorVars, breakerVars>>

NextRecovery ==
    \/ recover_connection
    \/ recovery_slept
    \/ recovery_created
    \/ recovery_closed

SpecRecovery == InitRecovery /\ [][NextRecovery]_vars

\* =========================================== AgenticSQLClient, the breaker
\* a breaker that never looks at the clock
BreakerOpen_NoCooldown ==
    /\ circuit_breaker_failures >= circuit_breaker_threshold

\* lines 255-257: the breaker is open
BreakerOpen ==
    /\ circuit_breaker_failures >= circuit_breaker_threshold
    /\ now - circuit_breaker_last_failure < circuit_breaker_timeout

\* lines 253-262: the failure count _is_circuit_breaker_open leaves
AfterIsOpen ==
    IF circuit_breaker_failures >= circuit_breaker_threshold /\ ~BreakerOpen
    THEN 0
    ELSE circuit_breaker_failures

\* lines 264-267: _record_failure
record_failure ==
    /\ circuit_breaker_failures' = circuit_breaker_failures + 1
    /\ circuit_breaker_last_failure' = now

\* a success that closes the breaker at once
record_success_Reset ==
    /\ circuit_breaker_failures' = 0
    /\ UNCHANGED circuit_breaker_last_failure

\* lines 269-272: _record_success
record_success ==
    /\ circuit_breaker_failures' =
           IF circuit_breaker_failures > 0
           THEN (IF circuit_breaker_failures - 1 > 0
                 THEN circuit_breaker_failures - 1 ELSE 0)
           ELSE circuit_breaker_failures
    /\ UNCHANGED circuit_breaker_last_failure

\* the server is contacted (a connection attempt or a tool request leaves the
\* client); contacted_open remembers a contact made with the breaker open
Contact(failures, last_failure) ==
    contacted_open' =
        (contacted_open
            \/ (failures >= circuit_breaker_threshold
                   /\ now - last_failure < circuit_breaker_timeout))

\* lines 297-308: an attempt of task t makes a new Client, stores it in
\* self.client and suspends in its __aenter__, which connects to the server
NewClient(t, failures) ==
    /\ client_owner' = t
    /\ client_connected' = FALSE
    /\ Contact(failures, circuit_breaker_last_failure)

\* the loop variable of task t is not read again once its attempt has got
\* past __aenter__ or its call has returned
AttemptOver(t) ==
    cattempt' = [cattempt EXCEPT ![t] = 0]

\* lines 316-320: the end of a successful attempt of task t
ConnectReturnsTrue(t) ==
    /\ record_success
    /\ AttemptOver(t)
    /\ connect_result' = "true"
    /\ cpc' = [cpc EXCEPT ![t] = "idle"]

\* self.client.call_tool with self.client as it is after this step: a Client
\* whose __aenter__ has not completed raises without sending anything
CallTool(connected, t, awaiting) ==
    IF connected
    THEN /\ Contact(circuit_breaker_failures, circuit_breaker_last_failure)
         /\ cpc' = [cpc EXCEPT ![t] = awaiting]
         /\ AttemptOver(t)
         /\ UNCHANGED <<circuit_breaker_failures, circuit_breaker_last_failure,
                        connect_result>>
    ELSE \* the exception is swallowed at line 340 or 375 and the attempt
         \* runs to its end without suspending: the call _verify_connection
         \* makes and the ones of _initialize_context all raise
         /\ ConnectReturnsTrue(t)
         /\ UNCHANGED contacted_open

\* the tasks that call connect() are interchangeable: the lowest idle one
\* makes the next call
LowestIdle(t) ==
    /\ cpc[t] = "idle"
    /\ \A u \in Connectors : u < t => cpc[u] # "idle"

\* lines 287-308: connect() asks the breaker and returns False when it is
\* open; otherwise it starts its first attempt and suspends in the client's
\* __aenter__
connect(t) ==
    /\ LowestIdle(t)
    /\ connects < MaxConnects
    /\ connects' = connects + 1
    /\ circuit_breaker_failures' = AfterIsOpen
    /\ IF BreakerOpen
       THEN /\ connect_result' = "blocked"
            /\ UNCHANGED <<cpc, cattempt, client_owner, client_connected,
                           contacted_open>>
       ELSE /\ cpc' = [cpc EXCEPT ![t] = "connecting"]
            /\ cattempt' = [cattempt EXCEPT ![t] = 0]
            /\ NewClient(t, AfterIsOpen)
            /\ UNCHANGED connect_result
    /\ UNCHANGED circuit_breaker_last_failure
    /\ UNCHANGED <<qpc, queries, cacheVars, createVars>>
    /\ UNCHANGED <<poolVars, toolVars, monitorVars, recoveryVars>>

\* lines 308-311: __aenter__ returned, the Client this attempt made is
\* connected; _verify_connection calls list_available_tools on self.client,
\* which another task may have replaced since
connect_entered(t) ==
    /\ cpc[t] = "connecting"
    /\ client_connected' = (client_connected \/ client_owner = t)
    /\ CallTool(client_connected \/ client_owner = t, t, "verifying")
    /\ UNCHANGED <<connects, client_owner>>
    /\ UNCHANGED <<qpc, queries, cacheVars, createVars>>
    /\ UNCHANGED <<poolVars, toolVars, monitorVars, recoveryVars>>

\* lines 338-341 and 358: the test call returned or raised (the exception is
\* swallowed); _initialize_context asks for database_info
connect_verified(t) ==
    /\ cpc[t] = "verifying"
    /\ CallTool(client_connected, t, "context_db")
    /\ UNCHANGED <<connects, client_owner, client_connected>>
    /\ UNCHANGED <<qpc, queries, cacheVars, createVars>>
    /\ UNCHANGED <<poolVars, toolVars, monitorVars, recoveryVars>>

\* lines 358-367 and 375: database_info returned and list_tables is asked
\* for, or it raised and _initialize_context gives up
connect_context_db(t) ==
    /\ cpc[t] = "context_db"
    /\ \/ CallTool(client_connected, t, "context_tables")
       \/ /\ ConnectReturnsTrue(t)
          /\ UNCHANGED contacted_open
    /\ UNCHANGED <<connects, client_owner, client_connected>>
    /\ UNCHANGED <<qpc, queries, cacheVars, createVars>>
    /\ UNCHANGED <<poolVars, toolVars, monitorVars, recoveryVars>>

\* lines 367-376 and 316-320: list_tables returned or raised; the attempt
\* went through
connect_succeeded(t) ==
    /\ cpc[t] = "context_tables"
    /\ ConnectReturnsTrue(t)
    /\ UNCHANGED <<connects, client_owner, client_connected, contacted_open>>
    /\ UNCHANGED <<qpc, queries, cacheVars, createVars>>
    /\ UNCHANGED <<poolVars, toolVars, monitorVars, recoveryVars>>

\* lines 322-332: __aenter__ raised; the last attempt records the failure and
\* connect() returns False, any other suspends in asyncio.sleep
connect_failed(t) ==
    /\ cpc[t] = "connecting"
    /\ IF cattempt[t] < max_retries - 1
       THEN /\ cpc' = [cpc EXCEPT ![t] = "retrying"]
            /\ UNCHANGED <<circuit_breaker_failures, circuit_breaker_last_failure,
                           connect_result, cattempt>>
       ELSE /\ record_failure
            /\ connect_result' = "false"
            /\ cpc' = [cpc EXCEPT ![t] = "idle"]
            /\ AttemptOver(t)
    /\ UNCHANGED <<connects, client_owner, client_connected, contacted_open>>
    /\ UNCHANGED <<qpc, queries, cacheVars, createVars>>
    /\ UNCHANGED <<poolVars, toolVars, monitorVars, recoveryVars>>

\* lines 291-308 and 327: the sleep is over, the next attempt starts without
\* asking the breaker again
connect_retries(t) ==
    /\ cpc[t] = "retrying"
    /\ cpc' = [cpc EXCEPT ![t] = "connecting"]
    /\ cattempt' = [cattempt EXCEPT ![t] = cattempt[t] + 1]
    /\ NewClient(t, circuit_breaker_failures)
    /\ UNCHANGED <<circuit_breaker_failures, circuit_breaker_last_failure,
                   connect_result, connects>>
    /\ UNCHANGED <<qpc, queries, cacheVars, createVars>>
    /\ UNCHANGED <<poolVars, toolVars, monitorVars, recoveryVars>>

\* lines 497-522 and 620-628: execute_query of the client never asks the
\* breaker: it calls read_data on self.client, which sends the request when
\* the Client is connected and raises otherwise (no client, or a Client whose
\* __aenter__ has not completed), and then a failed QueryResult is returned
client_execute_query ==
    /\ qpc = "idle"
    /\ queries < MaxQueries
    /\ queries' = queries + 1
    /\ IF client_owner # 0 /\ client_connected
       THEN /\ Contact(circuit_breaker_failures, circuit_breaker_last_failure)
            /\ qpc' = "awaiting"
       ELSE UNCHANGED <<contacted_open, qpc>>
    /\ UNCHANGED <<circuit_breaker_failures, circuit_breaker_last_failure, cpc,
                   cattempt, connect_result, connects, client_owner,
                   client_connected, cacheVars, createVars>>
    /\ UNCHANGED <<poolVars, toolVars, monitorVars, recoveryVars>>

\* lines 519-628: read_data returned, raised or timed out; a QueryResult is
\* returned and nothing of the breaker is written
client_query_returns ==
    /\ qpc = "awaiting"
    /\ qpc' = "idle"
    /\ UNCHANGED <<circuit_breaker_failures, circuit_breaker_last_failure, cpc,
                   cattempt, connect_result, connects, client_owner,
                   client_connected, contacted_open, queries, cacheVars,
                   createVars>>
    /\ UNCHANGED <<poolVars, toolVars, monitorVars, recoveryVars>>

NextBreaker ==
    \/ \E t \in Connectors : connect(t)
    \/ \E t \in Connectors : connect_entered(t)
    \/ \E t \in Connectors : connect_verified(t)
    \/ \E t \in Connectors : connect_context_db(t)
    \/ \E t \in Connectors : connect_succeeded(t)
    \/ \E t \in Connectors : connect_failed(t)
    \/ \E t \in Connectors : connect_retries(t)
    \/ client_execute_query
    \/ client_query_returns
    \/ clock_tick

SpecBreaker == InitTools /\ [][NextBreaker]_vars

\* ============================================ AgenticSQLClient, the caches
\* datetime values are seconds counted from the midnight that starts the day
\* of the run. datetime.min is a midnight too (0001-01-01 00:00:00), so only
\* its time of day enters timedelta.seconds; it stands one day before the run
DatetimeMin == 0 - SecondsPerDay

\* timedelta.seconds: the seconds field of a normalised timedelta, which
\* leaves the days out (0 <= seconds < 86400)
TimedeltaSeconds(delta) == delta % SecondsPerDay

\* line 178: DatabaseInfo.is_cache_valid
is_cache_valid(entry) ==
    TimedeltaSeconds(wall - entry.last_updated) < entry.cache_ttl

\* lines 436-445: the DatabaseInfo get_database_info stores
NewDatabaseInfo(tables) ==
    [connection_status |-> "Connected",
     tables |-> tables,
     last_updated |-> wall,
     cache_ttl |-> cache_ttl]

\* what the last read returned: from which cache, whether it was a cached
\* value, and whether that value was older than its ttl by then
Returned(op, hit, written) ==
    last_read' = [op |-> op, hit |-> hit,
                  stale |-> hit /\ wall - written >= cache_ttl]

\* datetime.now() moves on
wall_tick ==
    /\ ticks < MaxTicks
    /\ ticks' = ticks + 1
    /\ \E d \in ClockSteps : wall' = wall + d
    /\ UNCHANGED <<cache_ttl, db_info_cache, gpc, db_result, tables_result,
                   schema_cache, schema_written, spc, validation_cache,
                   validation_written, last_read>>
    /\ UNCHANGED <<poolVars, toolVars, monitorVars, recoveryVars, breakerState,
                   createVars>>

\* lines 180-182: DatabaseInfo.invalidate_cache on the cached entry
invalidate_cache ==
    /\ db_info_cache # <<>>
    /\ db_info_cache' =
           <<[db_info_cache[1] EXCEPT !.last_updated = DatetimeMin]>>
    /\ UNCHANGED <<wall, ticks, cache_ttl, gpc, db_result, tables_result,
                   schema_cache, schema_written, spc, validation_cache,
                   validation_written, last_read>>
    /\ UNCHANGED <<poolVars, toolVars, monitorVars, recoveryVars, breakerState,
                   createVars>>

\* lines 379-398 and 450-459: get_database_info returns the cached entry when
\* there is one, is_cache_valid holds and its status is "Connected";
\* otherwise it starts the two requests and suspends in gather. With no
\* client, line 394 raises and an uncached error DatabaseInfo is returned
get_database_info ==
    /\ gpc = "idle"
    /\ IF /\ db_info_cache # <<>>
          /\ is_cache_valid(db_info_cache[1])
          /\ db_info_cache[1].connection_status = "Connected"
       THEN /\ Returned("database_info", TRUE, db_info_cache[1].last_updated)
            /\ UNCHANGED gpc
       ELSE IF client_owner = 0
       THEN /\ Returned("database_info", FALSE, wall)
            /\ UNCHANGED gpc
       ELSE /\ gpc' = "gathering"
            /\ UNCHANGED last_read
    /\ UNCHANGED <<wall, ticks, cache_ttl, db_info_cache, db_result,
                   tables_result, schema_cache, schema_written, spc,
                   validation_cache, validation_written>>
    /\ UNCHANGED <<poolVars, toolVars, monitorVars, recoveryVars, breakerState,
                   createVars>>

\* lines 398-459: gather returned the two results, exceptions included
\* (return_exceptions=True); a Client that is not connected makes both
\* requests raise. A failed database_info is logged, a failed list_tables
\* gives tables = [], and the entry is stored in every case; only a
\* list_tables answer that cannot be read (line 409 raises) leads to the
\* except branch, which stores nothing
database_info_gathered ==
    /\ gpc = "gathering"
    /\ gpc' = "idle"
    /\ \E db \in {"ok", "exception"}, tb \in {"ok", "exception", "malformed"} :
           /\ ~client_connected => (db = "exception" /\ tb = "exception")
           /\ db_result' = db
           /\ tables_result' = tb
           /\ IF tb = "malformed"
              THEN UNCHANGED db_info_cache
              ELSE db_info_cache' =
                       <<NewDatabaseInfo(IF tb = "ok" THEN "listed" ELSE "empty")>>
    /\ Returned("database_info", FALSE, wall)
    /\ UNCHANGED <<wall, ticks, cache_ttl, schema_cache, schema_written, spc,
                   validation_cache, validation_written>>
    /\ UNCHANGED <<poolVars, toolVars, monitorVars, recoveryVars, breakerState,
                   createVars>>

\* lines 461-476 and 492-494: get_table_schema returns the cached schema of
\* the table when there is one; otherwise it asks for describe_table and
\* suspends. With no client, line 476 raises and None is returned
get_table_schema(tb) ==
    /\ spc[tb] = "idle"
    /\ IF schema_cache[tb]
       THEN /\ Returned("table_schema", TRUE, schema_written[tb])
            /\ UNCHANGED spc
       ELSE IF client_owner = 0
       THEN /\ Returned("table_schema", FALSE, wall)
            /\ UNCHANGED spc
       ELSE /\ spc' = [spc EXCEPT ![tb] = "describing"]
            /\ UNCHANGED last_read
    /\ UNCHANGED <<wall, ticks, cache_ttl, db_info_cache, gpc, db_result,
                   tables_result, schema_cache, schema_written,
                   validation_cache, validation_written>>
    /\ UNCHANGED <<poolVars, toolVars, monitorVars, recoveryVars, breakerState,
                   createVars>>

\* lines 476-494: describe_table returned and the schema is stored, or it
\* raised and None is returned
table_schema_described(tb) ==
    /\ spc[tb] = "describing"
    /\ spc' = [spc EXCEPT ![tb] = "idle"]
    /\ \/ /\ client_connected
          /\ schema_cache' = [schema_cache EXCEPT ![tb] = TRUE]
          /\ schema_written' = [schema_written EXCEPT ![tb] = wall]
       \/ UNCHANGED <<schema_cache, schema_written>>
    /\ Returned("table_schema", FALSE, wall)
    /\ UNCHANGED <<wall, ticks, cache_ttl, db_info_cache, gpc, db_result,
                   tables_result, validation_cache, validation_written>>
    /\ UNCHANGED <<poolVars, toolVars, monitorVars, recoveryVars, breakerState,
                   createVars>>

\* lines 630-691: _validate_read_only_query returns the cached verdict of
\* the query when there is one, and otherwise computes and stores it
validate_read_only_query(q) ==
    /\ IF validation_cache[q]
       THEN /\ Returned("validation", TRUE, validation_written[q])
            /\ UNCHANGED <<validation_cache, validation_written>>
       ELSE /\ Returned("validation", FALSE, wall)
            /\ validation_cache' = [validation_cache EXCEPT ![q] = TRUE]
            /\ validation_written' = [validation_written EXCEPT ![q] = wall]
    /\ UNCHANGED <<wall, ticks, cache_ttl, db_info_cache, gpc, db_result,
                   tables_result, schema_cache, schema_written, spc>>
    /\ UNCHANGED <<poolVars, toolVars, monitorVars, recoveryVars, breakerState,
                   createVars>>

NextCache ==
    \/ wall_tick
    \/ invalidate_cache
    \/ get_database_info
    \/ database_info_gathered
    \/ \E tb \in TableNames : get_table_schema(tb)
    \/ \E tb \in TableNames : table_schema_described(tb)
    \/ \E q \in QueryHashes : validate_read_only_query(q)

SpecCache == InitCache /\ [][NextCache]_vars

\* ============================= create_connection under tenacity's @retry
\* sql_connection_factory.py lines 107-160 and core.py lines 101-107. The
\* decorator retry(stop=stop_after_attempt(3)) is given no reraise=True, so
\* once the attempts are used up it raises tenacity.RetryError, which wraps
\* the last attempt; RetryError derives from Exception only

\* core.py line 156: the exceptions _lifespan handles by yielding conn = None
LifespanCatches(e) == e \in {"ConnectionError", "OSError", "RuntimeError"}

\* what a retry decorator raises once stop_after_attempt(3) says stop
Exhausted(last) == "RetryError"

\* lines 123-150: what the connect() closure raises: pyodbc.Error becomes
\* ConnectionError, anything else (the credential, the driver) passes
ConnectRaises(kind) ==
    IF kind = "pyodbc.Error" THEN "ConnectionError" ELSE kind

\* a request starts: create_connection called directly (the pool, the
\* monitor, the resource managers), or through _create_connection_with_retry
\* by _lifespan (core.py line 129)
create_connection(via_lifespan) ==
    /\ create_pc = "idle"
    /\ create_pc' = "connecting"
    /\ outer_attempt' = IF via_lifespan THEN 1 ELSE 0
    /\ inner_attempt' = 1
    /\ connect_calls' = 1
    /\ UNCHANGED <<create_errors, create_raised, startup>>
    /\ UNCHANGED <<poolVars, toolVars, monitorVars, recoveryVars, breakerState,
                   cacheVars>>

\* lines 153-157: run_in_executor returned the connection; core.py line 129
\* gets it as conn
create_returned ==
    /\ create_pc = "connecting"
    /\ create_pc' = "returned"
    /\ startup' = IF outer_attempt > 0 THEN "serving" ELSE startup
    /\ UNCHANGED <<outer_attempt, inner_attempt, connect_calls, create_errors,
                   create_raised>>
    /\ UNCHANGED <<poolVars, toolVars, monitorVars, recoveryVars, breakerState,
                   cacheVars>>

\* lines 148-160: connect() raised; the except clause logs and re-raises and
\* the decorators decide: create_connection sleeps and tries again, or raises
\* what Exhausted says; _create_connection_with_retry then does the same
\* with that exception; _lifespan handles what comes out (core.py 156-168)
create_raised_error(kind) ==
    /\ create_pc = "connecting"
    /\ create_errors' = Append(create_errors, ConnectRaises(kind))
    /\ IF inner_attempt < stop_after_attempt
       THEN /\ create_pc' = "waiting"
            /\ UNCHANGED <<create_raised, startup>>
       ELSE IF outer_attempt = 0
       THEN /\ create_pc' = "raised"
            /\ create_raised' = Exhausted(ConnectRaises(kind))
            /\ UNCHANGED startup
       ELSE IF outer_attempt < stop_after_attempt
       THEN /\ create_pc' = "waiting_outer"
            /\ UNCHANGED <<create_raised, startup>>
       ELSE /\ create_pc' = "raised"
            /\ create_raised' = Exhausted(Exhausted(ConnectRaises(kind)))
            /\ startup' =
                   IF LifespanCatches(Exhausted(Exhausted(ConnectRaises(kind))))
                   THEN "serving_without_connection"
                   ELSE "failed"
    /\ UNCHANGED <<outer_attempt, inner_attempt, connect_calls>>
    /\ UNCHANGED <<poolVars, toolVars, monitorVars, recoveryVars, breakerState,
                   cacheVars>>

\* the sleep of create_connection's decorator is over: next attempt
create_retried ==
    /\ create_pc = "waiting"
    /\ create_pc' = "connecting"
    /\ inner_attempt' = inner_attempt + 1
    /\ connect_calls' = connect_calls + 1
    /\ UNCHANGED <<outer_attempt, create_errors, create_raised, startup>>
    /\ UNCHANGED <<poolVars, toolVars, monitorVars, recoveryVars, breakerState,
                   cacheVars>>

\* the sleep of _create_connection_with_retry's decorator is over: it calls
\* create_connection again, which starts from its first attempt
create_retried_outer ==
    /\ create_pc = "waiting_outer"
    /\ create_pc' = "connecting"
    /\ outer_attempt' = outer_attempt + 1
    /\ inner_attempt' = 1
    /\ connect_calls' = connect_calls + 1
    /\ UNCHANGED <<create_errors, create_raised, startup>>
    /\ UNCHANGED <<poolVars, toolVars, monitorVars, recoveryVars, breakerState,
                   cacheVars>>

NextCreate ==
    \/ \E via_lifespan \in BOOLEAN : create_connection(via_lifespan)
    \/ create_returned
    \/ \E kind \in ConnectErrors : create_raised_error(kind)
    \/ create_retried
    \/ create_retried_outer

SpecCreate == InitTools /\ [][NextCreate]_vars

\* ================================================================ claims
\* callers that hold a connection of the pool through a scope
PoolHolders ==
    {t \in Callers : held[t] # None /\ pc[t] # "creating" /\ pc[t] # "closing"
                     /\ yielded[t] # "unpooled"}

\* callers inside a pooled scope (the connection is leased to them)
Leased == {t \in Callers : pc[t] = "leased" /\ yielded[t] # "unpooled"}

\* open connections idle in the current pool
IdleOpen ==
    IF connection_pool = None THEN {}
    ELSE {c \in Range(queues[connection_pool]) : conn_state[c] = "open"}

\* c is idle in the pool p whose queues are qs
IdleIn(qs, p, c) == p # None /\ c \in Range(qs[p])

\* C1: with pooling enabled at size N > 0, the connections leased plus the
\* open connections idle in the pool are never more than N
C1_LeasedPlusIdleAtMostN ==
    (pool_size > 0 /\ connection_pool # None)
        => Cardinality(Leased) + Cardinality(IdleOpen) <= pool_size

\* C2: a connection handed to a caller is in no queue and in no other
\* caller's hands until that caller's scope has ended; no connection is in
\* two queues or twice in one
C2_NeverLeasedTwice ==
    /\ \A t \in Callers : held[t] # None =>
          /\ \A u \in Callers : u # t => held[u] # held[t]
          /\ \A q \in Inits : held[t] \notin Range(queues[q])
          /\ \A k \in Inits : iconn[k] # held[t]
    /\ \A q \in Inits :
          /\ \A i, j \in 1..Len(queues[q]) : i # j => queues[q][i] # queues[q][j]
          /\ \A r \in Inits : r # q => Range(queues[q]) \cap Range(queues[r]) = {}

\* two callers are inside pooled scopes at once, and a third one waits
C2_Witness ==
    \E t, u, v \in Callers :
        /\ t # u /\ pc[t] = "leased" /\ pc[u] = "leased" /\ pc[v] = "waitGet"
        /\ yielded[t] = "first" /\ yielded[u] = "first"

\* C3: no two worker threads run work on the same connection at once
C3_OneHolderAtATime ==
    \A w, x \in Workers : (w # x /\ worker[w] # None) => worker[w] # worker[x]

\* C4: every scope that has been entered is left in the end with its
\* connection idle in the pool or closed (under FairSpec)
C4_ScopeEndsIdleOrClosed ==
    \A t \in Callers : \A c \in ConnIds :
        (pc[t] = "leased" /\ held[t] = c)
            ~> (conn_state[c] = "closed" \/ IdleIn(queues, connection_pool, c))

\* C5 as stated: a caller inside a scope holds a connection on which the
\* probe of lines 64-66 has passed during this acquire
C5_OnlyValidatedYielded ==
    \A t \in Callers : (pc[t] = "leased" /\ yielded[t] # "unpooled") => validated[t]

\* C5 amended: the step that enters a scope either yields a connection
\* taken from the queue that is open and has passed the probe in this step,
\* or yields a connection that create_connection has made in this step
C5_YieldedProbedOrFresh ==
    [][\A t \in Callers :
          (pc[t] # "leased" /\ pc'[t] = "leased") =>
              \/ /\ yielded'[t] = "first"
                 /\ validated'[t]
                 /\ conn_state[held'[t]] = "open"
                 /\ conn_state'[held'[t]] = "open"
              \/ /\ yielded'[t] \in {"second", "unpooled"}
                 /\ ~validated'[t]
                 /\ conn_state[held'[t]] = "none"
                 /\ conn_state'[held'[t]] = "open"]_vars

\* a caller is inside a scope with the replacement for a connection that
\* failed the probe
C5_Witness ==
    \E t \in Callers : pc[t] = "leased" /\ yielded[t] = "second"

\* initialize_pool has been called once, has returned, and the pool has
\* not been shut down since
InitializedOnce ==
    /\ pool_initialized
    /\ ipc[1] = "done"
    /\ \A k \in Inits : k # 1 => ipc[k] = "idle"

\* C6: an acquire that waits for an idle connection ends (under FairSpec);
\* stated for the pools that are initialized once and never shut down
C6_AcquireEnds ==
    \A t \in Callers :
        (InitializedOnce /\ pc[t] = "waitGet")
            ~> (pc[t] # "waitGet" \/ ~InitializedOnce)

\* the pool has been initialized once, with every connection created, and
\* has not been shut down
FullyInitialized ==
    /\ pool_size > 0
    /\ InitializedOnce
    /\ Len(queues[connection_pool]) + Cardinality(PoolHolders) = pool_size

\* C7: on a fully initialized pool an acquire does not wait while fewer
\* than N connections are out, it waits when all N are out, the connection
\* a release then puts back is the only idle one, and the waiter that wakes
\* up on a connection that answers the probe receives the head of the queue
C7_Scenario ==
    [][FullyInitialized =>
        \A t \in Callers :
          /\ (pc[t] = "idle" /\ pc'[t] # "idle"
                /\ Cardinality(PoolHolders) < pool_size) => pc'[t] # "waitGet"
          /\ (pc[t] = "idle" /\ pc'[t] # "idle"
                /\ Cardinality(PoolHolders) = pool_size) => pc'[t] = "waitGet"
          /\ (pc[t] = "leased" /\ pc'[t] = "idle"
                /\ Cardinality(PoolHolders) = pool_size)
                => queues'[connection_pool] = <<held[t]>>
          /\ (pc[t] = "waitGet" /\ pc'[t] = "leased")
                => /\ held'[t] = Head(queues[connection_pool])
                   /\ yielded'[t] = "first"]_vars

\* pool size 2: one of the two leased connections has been released while
\* the third caller waits
C7_Witness ==
    /\ FullyInitialized
    /\ pool_size = 2
    /\ Len(queues[connection_pool]) = 1
    /\ \E t, u \in Callers :
          /\ pc[t] = "waitGet" /\ waitq[t] = connection_pool
          /\ pc[u] = "leased" /\ yielded[u] = "first"

\* C8: the step of cleanup_pool closes every connection that was idle
C8_ShutdownClosesIdle ==
    [][(pool_initialized /\ ~pool_initialized') =>
          \A c \in Range(queues[connection_pool]) : conn_state'[c] = "closed"]_vars

\* the pool has been shut down (initialized once cleared, no
\* initialization under way)
PoolShutDown ==
    /\ connection_pool # None
    /\ ~pool_initialized
    /\ \A k \in Inits : ipc[k] \in {"idle", "done"}

\* C9: a scope that ends on a pool that has been shut down closes its
\* connection and does not put it back
C9_ReturnedAfterShutdownClosed ==
    [][\A t \in Callers :
          (PoolShutDown /\ pc[t] = "leased" /\ yielded[t] # "unpooled"
             /\ pc'[t] = "idle")
          => /\ conn_state'[held[t]] = "closed"
             /\ ~IdleIn(queues', connection_pool', held[t])]_vars

\* C10 as stated: error_count >= max_errors implies UNHEALTHY and
\* error_count < max_errors / 2 implies HEALTHY
C10_HealthRule ==
    \A i \in Ids : connection_health[i] # NoHealth =>
        /\ connection_health[i].error_count >= max_errors
              => connection_health[i].state = "UNHEALTHY"
        /\ 2 * connection_health[i].error_count < max_errors
              => connection_health[i].state = "HEALTHY"

\* C10 amended: after a failed probe error_count >= max_errors implies
\* UNHEALTHY, UNHEALTHY always implies error_count >= max_errors, and once
\* a probe has run error_count < max_errors div 2 implies HEALTHY
C10_HealthRuleAmended ==
    \A i \in Ids : connection_health[i] # NoHealth =>
        /\ (connection_health[i].error_count >= max_errors
              /\ connection_health[i].last_error # "None")
              => connection_health[i].state = "UNHEALTHY"
        /\ connection_health[i].state = "UNHEALTHY"
              => connection_health[i].error_count >= max_errors
        /\ (connection_health[i].error_count < max_errors \div 2
              /\ connection_health[i].state # "UNKNOWN")
              => connection_health[i].state = "HEALTHY"
        /\ connection_health[i].state = "UNKNOWN"
              => connection_health[i].error_count = 0

\* a successful probe has left a record HEALTHY with error_count still at
\* max_errors or above
C10_Witness ==
    \E i \in Ids :
        /\ connection_health[i].state = "HEALTHY"
        /\ connection_health[i].error_count >= max_errors

\* the step of task k in which its check records a failed probe
FailedProbeStep(k) ==
    /\ mpc[k] = "creating"
    /\ mpc'[k] \in {"sleeping", "ended"}
    /\ RefCurrent(k)

\* C11 as stated: a failed probe raises error_count by exactly 1, sets
\* last_error to the message and sets the state to UNHEALTHY when
\* error_count >= max_errors, else DEGRADED when error_count >= max_errors / 2
\* (the exact half), else HEALTHY
C11_FailedProbe ==
    [][\A k \in TaskIds : FailedProbeStep(k) =>
          /\ connection_health'[connection_id[k]].error_count
                 = connection_health[connection_id[k]].error_count + 1
          /\ connection_health'[connection_id[k]].last_error = "error_msg"
          /\ connection_health'[connection_id[k]].state =
                 IF connection_health'[connection_id[k]].error_count >= max_errors
                 THEN "UNHEALTHY"
                 ELSE IF 2 * connection_health'[connection_id[k]].error_count
                            >= max_errors
                      THEN "DEGRADED"
                      ELSE "HEALTHY"]_vars

\* C11 amended: as C11, with the DEGRADED threshold at max_errors div 2,
\* the half rounded down
C11_FailedProbeFloor ==
    [][\A k \in TaskIds : FailedProbeStep(k) =>
          /\ connection_health'[connection_id[k]].error_count
                 = connection_health[connection_id[k]].error_count + 1
          /\ connection_health'[connection_id[k]].last_error = "error_msg"
          /\ connection_health'[connection_id[k]].state =
                 IF connection_health'[connection_id[k]].error_count >= max_errors
                 THEN "UNHEALTHY"
                 ELSE IF connection_health'[connection_id[k]].error_count
                            >= max_errors \div 2
                      THEN "DEGRADED"
                      ELSE "HEALTHY"]_vars

\* a failed probe has left a record DEGRADED below the exact half of an
\* odd max_errors
C11_Witness ==
    \E i \in Ids :
        /\ connection_health[i].state = "DEGRADED"
        /\ connection_health[i].last_error = "error_msg"
        /\ 2 * connection_health[i].error_count < max_errors

\* the step of task k in which its check records a probe that passed
PassedProbeStep(k) ==
    /\ mpc[k] = "closing"
    /\ mpc'[k] \in {"sleeping", "ended"}
    /\ RefCurrent(k)

\* C12: a successful probe sets error_count to max(0, error_count - 1),
\* the state to HEALTHY and last_error to None, and error_count is never
\* negative
C12_PassedProbe ==
    /\ [](\A i \in Ids : connection_health[i].error_count >= 0)
    /\ [][\A k \in TaskIds : PassedProbeStep(k) =>
             /\ connection_health'[connection_id[k]].error_count =
                    IF connection_health[connection_id[k]].error_count >= 1
                    THEN connection_health[connection_id[k]].error_count - 1
                    ELSE 0
             /\ connection_health'[connection_id[k]].state = "HEALTHY"
             /\ connection_health'[connection_id[k]].last_error = "None"]_vars

\* a successful probe has left a record HEALTHY at error_count 0
C12_Witness ==
    \E i \in Ids :
        /\ connection_health[i].state = "HEALTHY"
        /\ connection_health[i].last_error = "None"
        /\ connection_health[i].error_count = 0

\* C13: a monitoring loop goes on after a failed probe and after an
\* exception (it is back in its sleep, or over when shutdown has set the
\* event), and a loop ends only when stop_monitoring or shutdown has
\* cancelled its task or shutdown has set the event
C13_LoopGoesOn ==
    [][\A k \in TaskIds :
          /\ (~TaskDone(k) /\ mpc'[k] \in {"ended", "cancelled"})
                 => (must_cancel[k] \/ shutdown_event)
          /\ (mpc[k] \in {"creating", "pausing"} /\ ~must_cancel[k]
                 /\ mpc'[k] \notin {"creating", "pausing", "closing"})
                 => mpc'[k] = IF shutdown_event THEN "ended" ELSE "sleeping"]_vars

\* a loop is back in its sleep after a probe that failed
C13_Witness ==
    \E k \in TaskIds :
        /\ mpc[k] = "sleeping"
        /\ connection_health[connection_id[k]].last_error = "error_msg"

\* C14: when a health check finishes, with the probe passed or failed, the
\* test connection it created has been closed: the task holds none and
\* none was dropped open
C14_TestConnectionClosed ==
    [][\A k \in TaskIds :
          (mpc[k] \in {"creating", "closing"} /\ ~must_cancel[k]
              /\ mpc'[k] \in {"sleeping", "ended"})
          => (test_conn'[k] = "none" /\ leaked' = leaked)]_vars

\* C15: the step in which a cancelled monitoring task ends leaves no test
\* connection open: the task holds none and none was dropped open
C15_CancelLeaksNothing ==
    [][\A k \in TaskIds :
          (~TaskDone(k) /\ mpc'[k] = "cancelled")
          => (test_conn'[k] = "none" /\ leaked' = leaked)]_vars

\* the monitoring loops of identity i that are not over
LoopsOf(i) == {k \in TaskIds : connection_id[k] = i /\ mpc[k] # "none" /\ ~TaskDone(k)}

\* C16: no step creates a task for an identity that has one in
\* self._monitoring_tasks or changes the record of such an identity by a
\* new start, and at every time at most one monitoring loop exists per
\* identity
C16_OneLoopPerIdentity ==
    /\ [](\A i \in Ids : Cardinality(LoopsOf(i)) <= 1)
    /\ [][\A k \in TaskIds :
             (mpc[k] = "none" /\ mpc'[k] = "created")
             => ~Monitored(monitoring_tasks, connection_id'[k])]_vars

\* C17: the step in which shutdown() returns leaves no monitoring loop
\* alive and no health record, and a step in which a stop_monitoring call
\* has deleted the entry of an identity and returned leaves that identity
\* without a live loop and without a record
C17_NothingLeftAfterStop ==
    [][/\ (shutdown_pc # "done" /\ shutdown_pc' = "done")
             => /\ \A k \in TaskIds : mpc'[k] \in {"none", "ended", "cancelled"}
                /\ \A i \in Ids : connection_health'[i] = NoHealth
       /\ \A i \in Ids :
             (Monitored(monitoring_tasks, i) /\ ~Monitored(monitoring_tasks', i))
             => /\ connection_health'[i] = NoHealth
                /\ \A k \in TaskIds :
                      connection_id'[k] = i
                          => mpc'[k] \in {"none", "ended", "cancelled"}]_vars

\* C18: a recover_connection call that returns after a successful attempt
\* returns true and records that attempt with success true, and a call
\* that returns false records attempts_used = max_retry_attempts with
\* success false, for every max_retry_attempts >= 0
C18_RecoveryRecorded ==
    [][(rpc # "returned" /\ rpc' = "returned") =>
          /\ rpc = "closing" =>
                /\ rresult' = "true"
                /\ recovery_stats' = [attempts_used |-> attempt, success |-> "true"]
          /\ rpc # "closing" =>
                /\ rresult' = "false"
                /\ recovery_stats' = [attempts_used |-> max_retry_attempts,
                                       success |-> "false"]]_vars

\* C19: recover_connection sleeps base_delay * 2^(k-1) before each attempt
\* k > 1 and nothing before attempt 1, and a call that returns false has
\* made exactly max_retry_attempts create_connection calls; with
\* max_retry_attempts = 3 and base_delay = 2 it has slept 4 and then 8 and
\* recorded attempts_used = 3
C19_Backoff ==
    /\ \A j \in 1..Len(waits) : waits[j] = base_delay * 2 ^ j
    /\ Len(waits) = IF attempt >= 1 THEN attempt - 1 ELSE 0
    /\ (rpc = "returned" /\ rresult = "false") =>
          /\ creations = max_retry_attempts
          /\ Len(waits) = IF max_retry_attempts >= 1
                           THEN max_retry_attempts - 1 ELSE 0
    /\ (rpc = "returned" /\ rresult = "false"
           /\ max_retry_attempts = 3 /\ base_delay = 2) =>
          /\ waits = <<4, 8>>
          /\ recovery_stats.attempts_used = 3

\* three attempts have failed with base_delay = 2
C19_Witness ==
    /\ rpc = "returned"
    /\ rresult = "false"
    /\ max_retry_attempts = 3
    /\ base_delay = 2
    /\ Len(waits) = 2

\* C20: connect() is blocked by _is_circuit_breaker_open exactly when
\* failures >= threshold and now - last_failure < timeout; a call made with
\* failures >= threshold once the timeout has elapsed is let through and
\* resets failures to 0, any other call leaves failures as it was; and the
\* failure that brings failures to the threshold leaves the breaker open
C20_BreakerOpen ==
    [][/\ connects' = connects + 1 =>
             /\ (cpc' = cpc /\ connect_result' = "blocked")
                    <=> (circuit_breaker_failures >= circuit_breaker_threshold
                         /\ now - circuit_breaker_last_failure
                                < circuit_breaker_timeout)
             /\ (circuit_breaker_failures >= circuit_breaker_threshold
                    /\ now - circuit_breaker_last_failure
                           >= circuit_breaker_timeout)
                    => (/\ \E t \in Connectors :
                               cpc[t] = "idle" /\ cpc'[t] = "connecting"
                        /\ circuit_breaker_failures' = 0)
             /\ (circuit_breaker_failures < circuit_breaker_threshold
                    \/ now - circuit_breaker_last_failure < circuit_breaker_timeout)
                    => circuit_breaker_failures' = circuit_breaker_failures
       /\ (circuit_breaker_failures' = circuit_breaker_failures + 1
              /\ circuit_breaker_failures' >= circuit_breaker_threshold)
             => now' - circuit_breaker_last_failure' < circuit_breaker_timeout]_vars

\* a connect() call was blocked and the next one, made after the timeout,
\* has been let through with failures reset to 0
C20_Witness ==
    /\ \E t \in Connectors : cpc[t] = "connecting"
    /\ connect_result = "blocked"
    /\ circuit_breaker_failures = 0
    /\ now - circuit_breaker_last_failure >= circuit_breaker_timeout

\* a connect() call of task t returns True in this step
ConnectSucceededStep(t) ==
    /\ cpc[t] # "idle"
    /\ cpc'[t] = "idle"
    /\ connect_result' = "true"

\* a connect() call of task t gives up after its last attempt in this step
ConnectFailedStep(t) ==
    /\ cpc[t] = "connecting"
    /\ cpc'[t] = "idle"
    /\ connect_result' = "false"

\* C21: _record_success lowers the failure count by exactly 1, never below 0,
\* and leaves the time of the last failure alone; _record_failure raises the
\* count by exactly 1 and sets the time of the last failure to now
C21_RecordSuccessFailure ==
    [][\A t \in Connectors :
           /\ ConnectSucceededStep(t) =>
                  /\ circuit_breaker_failures > 0
                         => circuit_breaker_failures'
                                = circuit_breaker_failures - 1
                  /\ circuit_breaker_failures = 0
                         => circuit_breaker_failures' = 0
                  /\ circuit_breaker_last_failure'
                         = circuit_breaker_last_failure
           /\ ConnectFailedStep(t) =>
                  /\ circuit_breaker_failures'
                         = circuit_breaker_failures + 1
                  /\ circuit_breaker_last_failure' = now]_vars

\* a success has brought the count from 2 down to 1 and left the time of
\* the last failure, which was recorded during the run, as it was
C21_Witness ==
    /\ connect_result = "true"
    /\ circuit_breaker_failures = 1
    /\ circuit_breaker_last_failure > 0

\* C22: while the breaker is open the client contacts the server neither
\* for a connection attempt nor for a request (connect, execute_query)
C22_FailFastWhileOpen ==
    ~contacted_open

\* C23: an entry written at t0 with time-to-live ttl is valid at t exactly
\* when t - t0 < ttl, however long it has been stored
C23_ValidWithinTtl ==
    (db_info_cache # <<>> /\ db_info_cache[1].last_updated # DatetimeMin)
        => (is_cache_valid(db_info_cache[1])
                <=> wall - db_info_cache[1].last_updated
                        < db_info_cache[1].cache_ttl)

\* C24: after invalidate_cache the entry is invalid on every check until it
\* is rewritten, whatever the time of day
C24_InvalidAfterInvalidate ==
    (db_info_cache # <<>> /\ db_info_cache[1].last_updated = DatetimeMin)
        => ~is_cache_valid(db_info_cache[1])

\* C25: a read that returns a cached value (database info, table schema,
\* query validation) never returns one older than its ttl
C25_NoStaleRead ==
    ~(last_read.hit /\ last_read.stale)

\* C30: get_database_info stores an entry only when database_info and
\* list_tables both succeeded; a failed refresh leaves the cached entry as
\* it was
C30_NoErrorCached ==
    [][(gpc = "gathering" /\ gpc' = "idle"
           /\ ~(db_result' = "ok" /\ tables_result' = "ok"))
          => db_info_cache' = db_info_cache]_vars

\* C26: a request to create a connection runs connect() at most 3 times,
\* and when every attempt failed it raises ConnectionError carrying the last
\* underlying error, which _lifespan handles by yielding a context with no
\* connection
C26_BoundedAttemptsConnectionError ==
    /\ connect_calls <= stop_after_attempt
    /\ create_pc = "raised" =>
           /\ create_raised = "ConnectionError"
           /\ outer_attempt > 0 => startup = "serving_without_connection"

\* C27: an exception raised by the caller's block inside a pooled scope
\* reaches the caller as it is: the scope does not handle it as a failed
\* validation (closing the leased connection and creating a replacement)
\* and does not put another error in its place
C27_CallerExceptionPropagates ==
    \A t \in Callers :
        /\ pc[t] # "replacing_raised"
        /\ pc[t] # "suspended"

\* C28: every connection that sits idle in the pool's queue is open; a
\* closed connection is never put back
C28_IdleConnectionsOpen ==
    connection_pool # None =>
        \A c \in Range(queues[connection_pool]) : conn_state[c] = "open"

\* C29: stop_monitoring calls for one identity, and shutdown, that interleave
\* at their await complete without raising (stated for the calls' outcome:
\* none of them ends in an exception)
C29_InterleavedStopsComplete ==
    /\ \A s \in Stoppers : stop_pc[s] # "raised"
    /\ shutdown_pc # "raised"

====
